---------------------------- MODULE Spec2Model ----------------------------
(***************************************************************************)
(* Model of the lending-rate notification bot (src/src/main.go and its     *)
(* source adapters).  Rates are percentages; the model keeps them as       *)
(* integers (whole percent).  Time is counted in minutes.                  *)
(***************************************************************************)
EXTENDS Integers, Sequences, FiniteSets, TLC

VARIABLES
    latestRates,      \* main.go:26  cached snapshot, a sequence of Rate
    lastFetchTime,    \* main.go:28  0 is the zero time (never fetched)
    previousRates,    \* main.go:38  <<token, source>> -> Rate
    activeChatIDs,    \* main.go:218 in-memory subscriber set
    userPreferences,  \* main.go:37  in-memory CEX preference cache, chat -> BOOLEAN
    dbSubscribers,    \* db.go:21    persisted subscribers table
    dbPreferences,    \* db.go:24    persisted user_preferences table, chat -> BOOLEAN
    now,              \* the wall clock read by time.Now()
    lastCycle,        \* history: the rates fetched by the last successful timer cycle
    cycles,           \* history: the number of timer cycles run so far
    step,             \* history: what the last handler did (its inputs, result and sends)
    probe,            \* argument and result of a pure function under test
    procs,            \* the executions in flight: position and locals of each
    published         \* history: what each completed fetchRates call stored, and when

vars == <<latestRates, lastFetchTime, previousRates, activeChatIDs, userPreferences,
          dbSubscribers, dbPreferences, now, lastCycle, cycles, step, probe,
          procs, published>>

-----------------------------------------------------------------------------
(* Bounds of the model *)

NumChats == 2
MaxTime == 2
MaxInjeraItems == 2
MaxAnswering == 2
MaxCycles == 2
MaxHistory == 3
MaxProbeRate == 45
MaxClock == 7
MaxProbeThreshold == 30
MaxEntries == 2

Chats == 1..NumChats

-----------------------------------------------------------------------------
(* Configuration, main.go:29-39 *)

cacheDuration == 5

lendingThresholds == [USDC |-> 30, TIA |-> 30, USDT |-> 30, FDUSD |-> 30]

rateChangeThreshold == 5

Compounds == 365

-----------------------------------------------------------------------------
(* Helpers on numbers and sequences *)

Abs(x) == IF x < 0 THEN -x ELSE x

RECURSIVE Concat(_)
Concat(ss) == IF ss = <<>> THEN <<>> ELSE Head(ss) \o Concat(Tail(ss))

Range(s) == {s[i] : i \in DOMAIN s}

EmptyMap == [k \in {} |-> TRUE]

Perms(S) ==
    {p \in [1..Cardinality(S) -> S] : \A i, j \in 1..Cardinality(S) : p[i] = p[j] => i = j}

-----------------------------------------------------------------------------
(* APR -> APY, main.go:568-577.  math.Pow is computed in fixed point with   *)
(* six decimals; the result is rounded to a whole percent.                 *)

Scale == 1000 * 1000

MulFix(a, b) ==
    LET K  == 1000
        a1 == a \div K
        a0 == a % K
        b1 == b \div K
        b0 == b % K
        t  == a1 * b0 + a0 * b1
    IN a1 * b1 + (t + (a0 * b0) \div K) \div K

RECURSIVE PowFix(_, _)
PowFix(b, n) ==
    IF n = 0 THEN Scale
    ELSE LET h  == PowFix(b, n \div 2)
             sq == MulFix(h, h)
         IN IF n % 2 = 1 THEN MulFix(sq, b) ELSE sq

convertAPRtoAPY(apr, compounds) ==
    LET base == Scale + (apr * Scale) \div (100 * compounds)
        apy  == PowFix(base, compounds) - Scale
    IN (apy * 100 + Scale \div 2) \div Scale

-----------------------------------------------------------------------------
(* Rates and the source adapters *)

Rate(source, token, lending, borrow, category) ==
    [Source |-> source, Token |-> token, LendingRate |-> lending,
     BorrowRate |-> borrow, Category |-> category]

Ok(rates) == [err |-> FALSE, rates |-> rates]
Failed == [err |-> TRUE, rates |-> <<>>]

\* main.go:231: the order in which fetchRates walks the sources
Sources == <<"OKX", "Neptune", "Injera", "Binance", "Bybit">>

\* OKX: one rate per currency ID (TIA, USDT, USDC), or an error for the whole call
OKXFetchRates ==
    {Failed} \cup
    {Ok(<<Rate("OKX", "TIA", x, 45, "CEX"), Rate("OKX", "USDT", 5, 6, "CEX"),
          Rate("OKX", "USDC", 5, 6, "CEX")>>) : x \in {40, 41}}

\* Neptune: the tokens of its denom map that the payload holds, possibly none
NeptuneFetchRates ==
    {Failed, Ok(<<>>)} \cup
    {Ok(<<Rate("Neptune", "USDC", x, 10, "DEX")>>) : x \in {0, 30}}

\* Injera: one USDT rate per decodable item of the aggregate query; no category
InjeraItems == <<30, 60>>

InjeraFetchRates ==
    {Failed} \cup
    {Ok([i \in 1..n |-> Rate("Injera", "USDT", InjeraItems[((i - 1) % 2) + 1], 40, "")]) :
        n \in 0..MaxInjeraItems}

\* Binance: the USDT and FDUSD products; an empty result is an error
BinanceFetchRates ==
    {Failed, Ok(<<Rate("Binance", "FDUSD", 70, 0, "CEX")>>)}

\* Bybit: the product name comes from the API
BybitFetchRates ==
    {Failed, Ok(<<Rate("Bybit", "DAI", 90, 0, "CEX")>>)}

FetchRatesOf(source) ==
    CASE source = "OKX" -> OKXFetchRates
      [] source = "Neptune" -> NeptuneFetchRates
      [] source = "Injera" -> InjeraFetchRates
      [] source = "Binance" -> BinanceFetchRates
      [] source = "Bybit" -> BybitFetchRates

\* what one walk over the sources can be answered, one response per source
Responses ==
    {<<a, b, c, d, e>> : a \in OKXFetchRates, b \in NeptuneFetchRates,
                         c \in InjeraFetchRates, d \in BinanceFetchRates,
                         e \in BybitFetchRates}

-----------------------------------------------------------------------------
(* The adapters, from the answers of the APIs to the rates.  An answer is    *)
(* "down" (the request failed), "garbage" (a body that is not the JSON       *)
(* expected) or "json" with the fields the adapter reads.  A number of a     *)
(* payload is counted in 1/10000; a string is the number it spells, or not   *)
(* a number.                                                                 *)

Down == [status |-> "down"]
Garbage == [status |-> "garbage"]

Spells(n) == [ok |-> TRUE, value |-> n]
NotANumber == [ok |-> FALSE, value |-> 0]

\* a fraction times 100, as a whole percent
TimesHundred(x) == x \div 100

\* part_008:54-82: the request for one currency ID
fetchInterestRates(answer) ==
    IF answer.status # "json" \/ Len(answer.list) = 0
    THEN [err |-> TRUE, currencyName |-> "", estimatedRate |-> 0, preRate |-> 0]
    ELSE [err |-> FALSE, currencyName |-> answer.list[1].currencyName,
          estimatedRate |-> answer.list[1].estimatedRate,
          preRate |-> answer.list[1].preRate]

\* part_008:35-52: answers[i] is the answer for the i-th currency ID
OKXSourceFetchRates(answers) ==
    IF \E i \in DOMAIN answers : fetchInterestRates(answers[i]).err
    THEN Failed
    ELSE Ok([i \in DOMAIN answers |->
                LET got == fetchInterestRates(answers[i])
                IN Rate("OKX", got.currencyName, TimesHundred(got.estimatedRate),
                        TimesHundred(got.preRate), "CEX")])

\* neptune_source.go:22-31: the denoms of the token map
NeptuneTokens ==
    [d \in {"ibc/2CBC", "ibc/F51B", "peggy0xdAC1"} |->
        CASE d = "ibc/2CBC" -> "USDC"
          [] d = "ibc/F51B" -> "TIA"
          [] d = "peggy0xdAC1" -> "USDT"]

\* neptune_source.go:58-82: the entry names a token of the map and its rate is a number
NeptuneEntryUsable(entry) ==
    /\ entry.shaped
    /\ entry.denom \in DOMAIN NeptuneTokens
    /\ entry.rate.ok

\* neptune_source.go:56-105: the entries of one list are put in the map of rates by token
RECURSIVE processRates(_, _, _)
processRates(ratesData, rateType, byToken) ==
    IF ratesData = <<>> THEN byToken
    ELSE LET entry == Head(ratesData)
         IN IF ~NeptuneEntryUsable(entry)
            THEN processRates(Tail(ratesData), rateType, byToken)
            ELSE LET token   == NeptuneTokens[entry.denom]
                     percent == TimesHundred(entry.rate.value)
                     old     == IF token \in DOMAIN byToken THEN byToken[token]
                                ELSE Rate("Neptune", token, 0, 0, "DEX")
                     new     == IF rateType = "Borrow"
                                THEN [old EXCEPT !.BorrowRate = percent]
                                ELSE [old EXCEPT !.LendingRate = percent]
                 IN processRates(Tail(ratesData), rateType,
                                 [t \in DOMAIN byToken \cup {token} |->
                                     IF t = token THEN new ELSE byToken[t]])

\* neptune_source.go:54-108, the map of rates by token
NeptuneRatesByToken(answer) ==
    processRates(answer.borrow, "Borrow", processRates(answer.lend, "Lend", EmptyMap))

\* neptune_source.go:34-117; order is the order in which the range over the map of
\* line 111 yields the tokens
NeptuneSourceFetchRates(answer, order) ==
    IF answer.status # "json" THEN Failed
    ELSE Ok([i \in DOMAIN order |-> NeptuneRatesByToken(answer)[order[i]]])

\* injera_source.go:57-83: the item decodes to two numbers
InjeraItemUsable(item) ==
    /\ item.success
    /\ item.decodes
    /\ item.borrow.ok
    /\ item.liquidity.ok

\* injera_source.go:38-97: one USDT rate for every usable item, without a category
InjeraSourceFetchRates(answer) ==
    IF answer.status # "json" THEN Failed
    ELSE LET usable == SelectSeq(answer.items, InjeraItemUsable)
         IN Ok([i \in DOMAIN usable |->
                   Rate("Injera", "USDT", TimesHundred(usable[i].liquidity.value),
                        TimesHundred(usable[i].borrow.value), "")])

\* part_011:98-106: the highest of the numbers of the range, starting from 0
RECURSIVE maxApy(_)
maxApy(apyRange) ==
    IF apyRange = <<>> THEN 0
    ELSE LET rest == maxApy(Tail(apyRange))
             apy  == Head(apyRange)
         IN IF apy.ok /\ apy.value > rest THEN apy.value ELSE rest

\* part_011:89-95: the products the adapter keeps
BinanceProductKept(product) ==
    /\ product.asset \in {"USDT", "FDUSD"}
    /\ Len(product.apyRange) > 0

\* part_011:38-122
BinanceSimpleEarnSourceFetchRates(answer) ==
    IF answer.status # "json" \/ answer.code # 200 \/ ~answer.success THEN Failed
    ELSE LET kept == SelectSeq(answer.list, BinanceProductKept)
         IN IF Len(kept) = 0 THEN Failed
            ELSE Ok([i \in DOMAIN kept |->
                        Rate("Binance", kept[i].asset,
                             TimesHundred(maxApy(kept[i].apyRange)), 0, "CEX")])

\* bybit_source.go:56-81: the answer for one product ends the call with an error
BybitProductFails(answer) ==
    \/ answer.status # "json"
    \/ answer.retCode # 0
    \/ Len(answer.tiers) > 1 /\ ~answer.tiers[2].ok

\* bybit_source.go:37-97: answers[i] is the answer for the i-th product ID; apy_e8
\* is divided by 1000000
BybitSourceFetchRates(answers) ==
    IF \E i \in DOMAIN answers : BybitProductFails(answers[i]) THEN Failed
    ELSE LET tiered == SelectSeq(answers, LAMBDA a : Len(a.tiers) > 1)
         IN Ok([i \in DOMAIN tiered |->
                   Rate("Bybit", tiered[i].name, tiered[i].tiers[2].value \div 1000000,
                        0, "CEX")])

-----------------------------------------------------------------------------
(* fetchRates, main.go:65-104 *)

\* (mutant) the conversion is applied to a rate that was already converted
NormalizeTwice(rate) ==
    IF rate.Source \in {"Neptune", "Injera"}
    THEN [rate EXCEPT
             !.LendingRate = convertAPRtoAPY(convertAPRtoAPY(rate.LendingRate, Compounds),
                                             Compounds),
             !.BorrowRate = convertAPRtoAPY(convertAPRtoAPY(rate.BorrowRate, Compounds),
                                            Compounds)]
    ELSE rate

\* main.go:79-86: the conversion is keyed on the rate's Source field
Normalize(rate) ==
    IF rate.Source \in {"Neptune", "Injera"}
    THEN [rate EXCEPT !.LendingRate = convertAPRtoAPY(rate.LendingRate, Compounds),
                      !.BorrowRate = convertAPRtoAPY(rate.BorrowRate, Compounds)]
    ELSE rate

NormalizeAll(rates) == [i \in DOMAIN rates |-> Normalize(rates[i])]

\* (mutant) the walk stops at the first source that fails
MergeRatesUntilError(resps) ==
    LET firstErr == IF \E i \in DOMAIN resps : resps[i].err
                    THEN CHOOSE i \in DOMAIN resps :
                            resps[i].err /\ \A j \in 1..(i - 1) : ~resps[j].err
                    ELSE Len(resps) + 1
    IN Concat([i \in 1..(firstErr - 1) |-> NormalizeAll(resps[i].rates)])

\* main.go:70-95: a failed source is skipped, the others are appended in order
MergeRates(resps) ==
    Concat([i \in DOMAIN resps |->
               IF resps[i].err THEN <<>> ELSE NormalizeAll(resps[i].rates)])

\* main.go:72-76
CountErrors(resps) == Cardinality({i \in DOMAIN resps : resps[i].err})

\* main.go:97
AllSourcesFailed(allRates, errors) == Len(allRates) = 0 /\ errors > 0

fetchRates(resps) ==
    LET allRates == MergeRates(resps)
    IN IF AllSourcesFailed(allRates, CountErrors(resps))
       THEN [err |-> TRUE, rates |-> <<>>]
       ELSE [err |-> FALSE, rates |-> allRates]

\* a call of fetchRates: what the sources answered and what it returns
Call(resps) == [resps |-> resps, out |-> fetchRates(resps)]

Answering(resps) == {i \in DOMAIN resps : ~resps[i].err}

FetchCalls == {Call(resps) : resps \in Responses}

CycleCalls == {Call(resps) : resps \in {r \in Responses : Cardinality(Answering(r)) <= MaxAnswering}}

\* (mutant) the new rates are appended to the snapshot in place
updateLatestRatesInPlace(rates) ==
    /\ latestRates' = latestRates \o rates
    /\ lastFetchTime' = now

\* (mutant) the snapshot is stored without its timestamp
updateLatestRatesNoStamp(rates) ==
    /\ latestRates' = rates
    /\ UNCHANGED lastFetchTime

\* main.go:43-48
updateLatestRates(rates) ==
    /\ latestRates' = rates
    /\ lastFetchTime' = now

-----------------------------------------------------------------------------
(* Change detection, main.go:155-174 and 241-259 *)

Key(rate) == <<rate.Token, rate.Source>>

\* (mutant) only an increase counts
hasSignificantIncrease(oldRate, newRate) ==
    IF oldRate.LendingRate = 0 THEN TRUE
    ELSE (newRate.LendingRate - oldRate.LendingRate) * 100
            >= rateChangeThreshold * Abs(oldRate.LendingRate)

\* main.go:155-162; (new - old) / old * 100 compared as a fraction
hasSignificantChange(oldRate, newRate) ==
    IF oldRate.LendingRate = 0 THEN TRUE
    ELSE Abs((newRate.LendingRate - oldRate.LendingRate) * 100)
            >= rateChangeThreshold * Abs(oldRate.LendingRate)

\* (mutant) a rate without a previous observation is not flagged
IsFilteredNeedsPrevious(rate, prev) ==
    /\ rate.Token \in DOMAIN lendingThresholds
    /\ rate.LendingRate >= lendingThresholds[rate.Token]
    /\ Key(rate) \in DOMAIN prev
    /\ hasSignificantChange(prev[Key(rate)], rate)

\* (mutant) the threshold is looked up without the test that the token has one
IsFilteredNoExists(rate, prev) ==
    /\ rate.LendingRate >=
          (IF rate.Token \in DOMAIN lendingThresholds
           THEN lendingThresholds[rate.Token] ELSE 0)
    /\ \/ Key(rate) \notin DOMAIN prev
       \/ hasSignificantChange(prev[Key(rate)], rate)

\* main.go:244-255: the test that puts a rate in filteredRates
IsFiltered(rate, prev) ==
    /\ rate.Token \in DOMAIN lendingThresholds
    /\ rate.LendingRate >= lendingThresholds[rate.Token]
    /\ \/ Key(rate) \notin DOMAIN prev
       \/ hasSignificantChange(prev[Key(rate)], rate)

filterRates(rates, prev) == SelectSeq(rates, LAMBDA r : IsFiltered(r, prev))

\* main.go:164-174: every rate is stored, a later one overwrites an earlier one
RECURSIVE updatePreviousRates(_, _)
updatePreviousRates(prev, rates) ==
    IF rates = <<>> THEN prev
    ELSE LET r == Head(rates)
             stored == [k \in DOMAIN prev \cup {Key(r)} |->
                           IF k = Key(r) THEN r ELSE prev[k]]
         IN updatePreviousRates(stored, Tail(rates))

-----------------------------------------------------------------------------
(* Rendering, main.go:261-310 and 547-564 *)

\* byte order of the source names, as sort.Slice compares them
SourceOrder == <<"Binance", "Bybit", "Injera", "Neptune", "OKX">>

SourceRank(source) == CHOOSE i \in DOMAIN SourceOrder : SourceOrder[i] = source

\* main.go:296-298: insertion sort (slices this short), which keeps equal keys in order
RECURSIVE InsertBySource(_, _)
InsertBySource(sorted, r) ==
    IF sorted = <<>> THEN <<r>>
    ELSE LET last == sorted[Len(sorted)]
         IN IF SourceRank(r.Source) < SourceRank(last.Source)
            THEN Append(InsertBySource(SubSeq(sorted, 1, Len(sorted) - 1), r), last)
            ELSE Append(sorted, r)

RECURSIVE SortBySource(_)
SortBySource(rates) ==
    IF rates = <<>> THEN <<>>
    ELSE InsertBySource(SortBySource(SubSeq(rates, 1, Len(rates) - 1)), rates[Len(rates)])

\* byte order of the token symbols, as sort.Strings compares them
TokenOrder == <<"BTC", "DAI", "FDUSD", "TIA", "USDC", "USDT">>

\* main.go:457-462: the tokens of a set in ascending order
SortTokens(tokens) == SelectSeq(TokenOrder, LAMBDA t : t \in tokens)

\* (mutant) the high-alert marker needs more than twice the threshold
formatRateStrict(rate, threshold) ==
    [source  |-> rate.Source,
     marker  |-> IF rate.LendingRate > threshold * 2 THEN "fire"
                 ELSE IF rate.LendingRate >= threshold THEN "bold"
                 ELSE "plain",
     lending |-> rate.LendingRate,
     borrow  |-> rate.BorrowRate]

\* main.go:547-564: the line of one rate; the marker is the emphasis of the lending rate
formatRate(rate, threshold) ==
    [source  |-> rate.Source,
     marker  |-> IF rate.LendingRate >= threshold * 2 THEN "fire"
                 ELSE IF rate.LendingRate >= threshold THEN "bold"
                 ELSE "plain",
     lending |-> rate.LendingRate,
     borrow  |-> rate.BorrowRate]

\* (mutant) a token without an entry is given the threshold of the configured tokens
ThresholdOrDefault(token) ==
    IF token \in DOMAIN lendingThresholds THEN lendingThresholds[token]
    ELSE lendingThresholds["USDT"]

\* main.go:301: a map lookup, which yields 0.0 for a token that has no entry
Threshold(token) ==
    IF token \in DOMAIN lendingThresholds THEN lendingThresholds[token] ELSE 0

\* main.go:263-269
tokensWithHighRates(filteredRates) == {r.Token : r \in Range(filteredRates)}

\* main.go:272-276
ratesByToken(rates, token) == SelectSeq(rates, LAMBDA r : r.Token = token)

\* main.go:293-304: the section of one token
Section(rates, token) ==
    LET sorted == SortBySource(ratesByToken(rates, token))
    IN [token |-> token,
        rows  |-> [i \in DOMAIN sorted |-> formatRate(sorted[i], Threshold(token))]]

\* main.go:280-308: the message of one recipient; order is the order in which the
\* range over the tokensWithHighRates map yields the tokens
Notification(rates, order) ==
    [kind |-> "notify", body |-> [i \in DOMAIN order |-> Section(rates, order[i])]]

Reply(kind) == [kind |-> kind, body |-> <<>>]

\* (mutant) the message is sent whether or not a rate was filtered
RecipientsAlways(filteredRates, chatIDs) == chatIDs

\* main.go:261 and 279: who is sent the message of a cycle
Recipients(filteredRates, chatIDs) == IF Len(filteredRates) > 0 THEN chatIDs ELSE {}

-----------------------------------------------------------------------------
(* The subscriber registry, db.go *)

\* db.go:78-90: the stored preference, 1 when there is no row
GetShowCEX(chat) == IF chat \in DOMAIN dbPreferences THEN dbPreferences[chat] ELSE TRUE

-----------------------------------------------------------------------------
(* Handlers *)

NoSends == [c \in Chats |-> <<>>]

SendTo(chat, msg) == [c \in Chats |-> IF c = chat THEN <<msg>> ELSE <<>>]

\* the record of one handler run: the command's chat, what the sources answered, whether
\* the handler failed, the rates it fetched, the previous observations it compared
\* them with, its filteredRates, the messages it handed to bot.Send for each chat, the
\* order in which a cycle took its recipients and the chats whose send failed
Report(op, chat, resps, err, rates, before, filtered, sent) ==
    [op |-> op, chat |-> chat, resps |-> resps, err |-> err, rates |-> rates,
     before |-> before, filtered |-> filtered, sent |-> sent, queue |-> <<>>,
     failed |-> {}]

Quiet(op) == Report(op, 0, <<>>, FALSE, <<>>, EmptyMap, <<>>, NoSends)

NoProbe == [in |-> <<>>, done |-> FALSE, out |-> FALSE]

\* the goroutine of a cron job and the command loop of main
Processes == {"timer", "command"}

\* an execution: its position, the answers its fetchRates call gets, the index of the
\* source it calls next, and the locals allRates and len(errors) of fetchRates
Idle == [pc |-> "idle", call |-> <<>>, i |-> 0, allRates |-> <<>>, errors |-> 0]

\* main.go:203-221: the process starts with the persisted registry and empty caches
Startup(subscribers, preferences) ==
    /\ latestRates = <<>>
    /\ lastFetchTime = 0
    /\ previousRates = EmptyMap
    /\ dbSubscribers = subscribers
    /\ activeChatIDs = subscribers
    /\ userPreferences = EmptyMap
    /\ dbPreferences = preferences
    /\ now = 1
    /\ lastCycle = <<>>
    /\ cycles = 0
    /\ step = Quiet("init")
    /\ procs = [p \in Processes |-> Idle]
    /\ published = {}

Init ==
    /\ \E subscribers \in SUBSET Chats : Startup(subscribers, EmptyMap)
    /\ probe = NoProbe

\* (mutant) the cache is written before the failure test
PublishRatesAlways(out) == updateLatestRates(out.rates)

\* main.go:97-103: the effect of one call of fetchRates on the cache
PublishRates(out) ==
    IF out.err
    THEN UNCHANGED <<latestRates, lastFetchTime>>
    ELSE updateLatestRates(out.rates)

\* the previous observations of the pairs of rates, main.go:251
Observed(prev, rates) ==
    [k \in {Key(r) : r \in Range(rates)} \cap DOMAIN prev |-> prev[k]]

\* main.go:279 and 518-523: what the sends of a cycle can do.  queue is the order in
\* which the range over activeChatIDs yields the recipients, failed the chats for whom
\* bot.Send returns an error
SendOutcomes(recipients) ==
    {[queue |-> q, failed |-> f] : q \in Perms(recipients), f \in SUBSET recipients}

\* the sends of a cycle in which every bot.Send succeeds
AllDelivered(recipients) ==
    {[queue |-> CHOOSE q \in Perms(recipients) : TRUE, failed |-> {}]}

\* (mutant) the loop is left at the first send that fails
SendLoopAborting(rates, order, outcome) ==
    LET q    == outcome.queue
        done == {i \in DOMAIN q : \A j \in 1..(i - 1) : q[j] \notin outcome.failed}
    IN [c \in Chats |->
           IF \E i \in done : q[i] = c
           THEN <<Notification(rates, order[c])>> ELSE <<>>]

\* main.go:279-310 and 518-523: the message of every recipient is handed to bot.Send;
\* sendTelegramMessage logs an error and returns nothing
SendLoop(rates, order, outcome) ==
    [c \in Chats |->
        IF c \in Range(outcome.queue)
        THEN <<Notification(rates, order[c])>> ELSE <<>>]

\* main.go:234-315, one timer cycle, of at most bound in a run; its sends all succeed
\* unless sendsMayFail
CronCycleWithin(call, sendsMayFail, bound) ==
    LET resps == call.resps
        out   == call.out
    IN /\ cycles < bound
       /\ cycles' = cycles + 1
       /\ PublishRates(out)
       /\ IF out.err
          THEN /\ step' = Report("cron", 0, resps, TRUE, <<>>, EmptyMap, <<>>, NoSends)
               /\ UNCHANGED <<previousRates, userPreferences, lastCycle>>
          ELSE LET filtered   == filterRates(out.rates, previousRates)
                   tokens     == tokensWithHighRates(filtered)
                   recipients == Recipients(filtered, activeChatIDs)
               IN /\ previousRates' = updatePreviousRates(previousRates, out.rates)
                  /\ lastCycle' = out.rates
                  /\ \E order \in [recipients -> Perms(tokens)],
                        loaded \in SUBSET (recipients \ DOMAIN userPreferences) :
                        \* main.go:288 and 140-153: the preference is read, and cached
                        \* unless the database read fails
                        /\ userPreferences' =
                              [c \in DOMAIN userPreferences \cup loaded |->
                                  IF c \in loaded THEN GetShowCEX(c)
                                  ELSE userPreferences[c]]
                        /\ \E outcome \in (IF sendsMayFail THEN SendOutcomes(recipients)
                                          ELSE AllDelivered(recipients)) :
                              step' = [Report("cron", 0, resps, FALSE, out.rates,
                                              Observed(previousRates, out.rates),
                                              filtered,
                                              SendLoop(out.rates, order, outcome))
                                          EXCEPT !.queue = outcome.queue,
                                                 !.failed = outcome.failed]
       /\ UNCHANGED <<activeChatIDs, dbSubscribers, dbPreferences, now, probe, procs, published>>

CronCycle(call, sendsMayFail) == CronCycleWithin(call, sendsMayFail, MaxCycles)

\* a timer cycle all of whose sends succeed: the outcome of a send changes nothing but
\* the log
CronWith(call) == CronCycle(call, FALSE)

\* a timer cycle with the outcomes of its sends
CronSending(call) == CronCycle(call, TRUE)

cronFetchRates == \E call \in CycleCalls : CronWith(call)

\* main.go:65-104, one call of fetchRates by itself
FetchWith(call) ==
    /\ PublishRates(call.out)
    /\ step' = Report("fetch", 0, call.resps, call.out.err, call.out.rates,
                      EmptyMap, <<>>, NoSends)
    /\ UNCHANGED <<previousRates, activeChatIDs, userPreferences, dbSubscribers,
                   dbPreferences, now, lastCycle, cycles, probe, procs, published>>

FetchCall == \E call \in FetchCalls : FetchWith(call)

\* (mutant) the subscriber is stored but not added to the in-memory set
StartStoredOnly(chat) ==
    /\ dbSubscribers' = dbSubscribers \cup {chat}
    /\ step' = [Quiet("start") EXCEPT !.chat = chat,
                   !.sent = SendTo(chat, Reply("welcome"))]
    /\ UNCHANGED <<latestRates, lastFetchTime, previousRates, activeChatIDs,
                   userPreferences, dbPreferences, now, lastCycle, cycles, probe, procs, published>>

\* main.go:363-375
Start(chat) ==
    /\ \E dbOk \in BOOLEAN :
          IF dbOk
          THEN /\ dbSubscribers' = dbSubscribers \cup {chat}
               /\ activeChatIDs' = activeChatIDs \cup {chat}
               /\ step' = [Quiet("start") EXCEPT !.chat = chat,
                              !.sent = SendTo(chat, Reply("welcome"))]
          ELSE /\ UNCHANGED <<dbSubscribers, activeChatIDs>>
               /\ step' = [Quiet("start") EXCEPT !.chat = chat, !.err = TRUE,
                              !.sent = SendTo(chat, Reply("sorry"))]
    /\ UNCHANGED <<latestRates, lastFetchTime, previousRates, userPreferences,
                   dbPreferences, now, lastCycle, cycles, probe, procs, published>>

\* main.go:377-389
Stop(chat) ==
    /\ \E dbOk \in BOOLEAN :
          IF dbOk
          THEN /\ dbSubscribers' = dbSubscribers \ {chat}
               /\ activeChatIDs' = activeChatIDs \ {chat}
               /\ step' = [Quiet("stop") EXCEPT !.chat = chat,
                              !.sent = SendTo(chat, Reply("unsubscribed"))]
          ELSE /\ UNCHANGED <<dbSubscribers, activeChatIDs>>
               /\ step' = [Quiet("stop") EXCEPT !.chat = chat, !.err = TRUE,
                              !.sent = SendTo(chat, Reply("sorry"))]
    /\ UNCHANGED <<latestRates, lastFetchTime, previousRates, userPreferences,
                   dbPreferences, now, lastCycle, cycles, probe, procs, published>>

\* (mutant) the cache still counts as valid when exactly cacheDuration has elapsed
isCacheValidAtExpiry == lastFetchTime # 0 /\ now - lastFetchTime <= cacheDuration

\* main.go:58-62
isCacheValid == lastFetchTime # 0 /\ now - lastFetchTime < cacheDuration

\* main.go:140-153 applied to the rates of a list in turn: cache is the preference
\* cache, reads[i] tells whether a database read made for rates[i] succeeds, and
\* the result is the rates kept together with the cache as the calls leave it
RECURSIVE selectVisible(_, _, _, _, _)
selectVisible(rates, i, cache, reads, chat) ==
    IF i > Len(rates) THEN [rates |-> <<>>, cache |-> cache]
    ELSE IF rates[i].Category # "CEX"
    THEN LET rest == selectVisible(rates, i + 1, cache, reads, chat)
         IN [rest EXCEPT !.rates = <<rates[i]>> \o rest.rates]
    ELSE LET loads  == chat \notin DOMAIN cache /\ reads[i]
             show   == IF chat \in DOMAIN cache THEN cache[chat]
                       ELSE IF reads[i] THEN GetShowCEX(chat) ELSE TRUE
             cached == IF loads
                       THEN [c \in DOMAIN cache \cup {chat} |->
                                IF c = chat THEN GetShowCEX(chat) ELSE cache[c]]
                       ELSE cache
             rest   == selectVisible(rates, i + 1, cached, reads, chat)
         IN IF show THEN [rest EXCEPT !.rates = <<rates[i]>> \o rest.rates] ELSE rest

\* main.go:414: the token argument of /rate, upper-cased
ToUpper(text) ==
    CASE text = "usdc" -> "USDC"
      [] text = "usdt" -> "USDT"
      [] OTHER -> text

\* the texts after "/rate" that chats send; "" is the bare command
RateArguments == {"", "usdc", "BTC"}

\* main.go:447-479: the listing of all tokens
Listing(allRates) ==
    LET tokens == SortTokens({r.Token : r \in Range(allRates)})
    IN [kind |-> "rates", body |-> [i \in DOMAIN tokens |-> Section(allRates, tokens[i])]]

\* main.go:415 and 436-445: the listing of one token
TokenListing(tokenRates, token) ==
    LET sorted == SortBySource(tokenRates)
    IN [kind |-> "rates-token",
        body |-> <<[token |-> token,
                    rows  |-> [i \in DOMAIN sorted |->
                                  formatRate(sorted[i], Threshold(token))]]>>]

\* main.go:401-484: the reply to /rate once the rates are at hand
RateReply(chat, arg, resps, allRates) ==
    IF Len(allRates) = 0
    THEN /\ step' = Report("rate", chat, resps, FALSE, allRates, EmptyMap, <<>>,
                           SendTo(chat, Reply("no-rates")))
         /\ UNCHANGED userPreferences
    ELSE IF arg = ""
    THEN /\ step' = Report("rate", chat, resps, FALSE, allRates, EmptyMap, <<>>,
                           SendTo(chat, Listing(allRates)))
         /\ UNCHANGED userPreferences
    ELSE LET token == ToUpper(arg)
             ofToken == ratesByToken(allRates, token)
         IN \E reads \in [DOMAIN ofToken -> BOOLEAN] :
               LET seen == selectVisible(ofToken, 1, userPreferences, reads, chat)
               IN /\ userPreferences' = seen.cache
                  /\ step' = Report("rate", chat, resps, FALSE, allRates, EmptyMap, <<>>,
                                    SendTo(chat, IF seen.rates = <<>>
                                                 THEN Reply("not-found")
                                                 ELSE TokenListing(seen.rates, token)))

\* (mutant) the rates at hand are also recorded as the previous observations
RateWithObserving(chat, arg, call) ==
    /\ IF isCacheValid
       THEN /\ UNCHANGED <<latestRates, lastFetchTime>>
            /\ RateReply(chat, arg, <<>>, latestRates)
            /\ previousRates' = updatePreviousRates(previousRates, latestRates)
       ELSE /\ PublishRates(call.out)
            /\ previousRates' = updatePreviousRates(previousRates, call.out.rates)
            /\ IF call.out.err
               THEN /\ step' = Report("rate", chat, call.resps, TRUE, <<>>, EmptyMap,
                                      <<>>, SendTo(chat, Reply("fetch-error")))
                    /\ UNCHANGED userPreferences
               ELSE RateReply(chat, arg, call.resps, call.out.rates)
    /\ UNCHANGED <<activeChatIDs, dbSubscribers, dbPreferences, now,
                   lastCycle, cycles, probe, procs, published>>

\* (mutant) a failed fetch is answered from the snapshot at hand
RateWithFallingBack(chat, arg, call) ==
    /\ IF isCacheValid
       THEN /\ UNCHANGED <<latestRates, lastFetchTime>>
            /\ RateReply(chat, arg, <<>>, latestRates)
       ELSE /\ PublishRates(call.out)
            /\ IF call.out.err
               THEN RateReply(chat, arg, call.resps, latestRates)
               ELSE RateReply(chat, arg, call.resps, call.out.rates)
    /\ UNCHANGED <<previousRates, activeChatIDs, dbSubscribers, dbPreferences, now,
                   lastCycle, cycles, probe, procs, published>>

\* main.go:391-484 with getRatesWithCache, 107-112
RateWith(chat, arg, call) ==
    /\ IF isCacheValid
       THEN /\ UNCHANGED <<latestRates, lastFetchTime>>
            /\ RateReply(chat, arg, <<>>, latestRates)
       ELSE /\ PublishRates(call.out)
            /\ IF call.out.err
               THEN /\ step' = Report("rate", chat, call.resps, TRUE, <<>>, EmptyMap,
                                      <<>>, SendTo(chat, Reply("fetch-error")))
                    /\ UNCHANGED userPreferences
               ELSE RateReply(chat, arg, call.resps, call.out.rates)
    /\ UNCHANGED <<previousRates, activeChatIDs, dbSubscribers, dbPreferences, now,
                   lastCycle, cycles, probe, procs, published>>

\* main.go:486-489
Help(chat) ==
    /\ step' = [Quiet("help") EXCEPT !.chat = chat, !.sent = SendTo(chat, Reply("help"))]
    /\ UNCHANGED <<latestRates, lastFetchTime, previousRates, activeChatIDs,
                   userPreferences, dbSubscribers, dbPreferences, now, lastCycle,
                   cycles, probe, procs, published>>

\* (mutant) the new value is put in the cache before the registry write is tried
CexCachesFirst(chat) ==
    /\ \E readOk \in BOOLEAN, writeOk \in BOOLEAN :
          LET cached   == chat \in DOMAIN userPreferences
              show     == IF cached THEN userPreferences[chat]
                          ELSE IF readOk THEN GetShowCEX(chat) ELSE TRUE
              newValue == ~show
          IN /\ userPreferences' = [c \in DOMAIN userPreferences \cup {chat} |->
                                       IF c = chat THEN newValue ELSE userPreferences[c]]
             /\ IF writeOk
                THEN /\ dbPreferences' =
                           [c \in DOMAIN dbPreferences \cup {chat} |->
                               IF c = chat THEN newValue ELSE dbPreferences[c]]
                     /\ step' = [Quiet("cex") EXCEPT !.chat = chat,
                                    !.sent = SendTo(chat, Reply(IF newValue
                                                                THEN "cex-enabled"
                                                                ELSE "cex-disabled"))]
                ELSE /\ UNCHANGED dbPreferences
                     /\ step' = [Quiet("cex") EXCEPT !.chat = chat, !.err = TRUE,
                                    !.sent = SendTo(chat, Reply("sorry"))]
    /\ UNCHANGED <<latestRates, lastFetchTime, previousRates, activeChatIDs,
                   dbSubscribers, now, lastCycle, cycles, probe, procs, published>>

\* main.go:491-508
Cex(chat) ==
    /\ \E readOk \in BOOLEAN, writeOk \in BOOLEAN :
          LET cached   == chat \in DOMAIN userPreferences
              show     == IF cached THEN userPreferences[chat]
                          ELSE IF readOk THEN GetShowCEX(chat) ELSE TRUE
              loaded   == IF ~cached /\ readOk
                          THEN [c \in DOMAIN userPreferences \cup {chat} |->
                                   IF c = chat THEN GetShowCEX(chat)
                                   ELSE userPreferences[c]]
                          ELSE userPreferences
              newValue == ~show
          IN IF writeOk
             THEN /\ dbPreferences' = [c \in DOMAIN dbPreferences \cup {chat} |->
                                          IF c = chat THEN newValue ELSE dbPreferences[c]]
                  /\ userPreferences' = [c \in DOMAIN loaded \cup {chat} |->
                                            IF c = chat THEN newValue ELSE loaded[c]]
                  /\ step' = [Quiet("cex") EXCEPT !.chat = chat,
                                 !.sent = SendTo(chat, Reply(IF newValue THEN "cex-enabled"
                                                             ELSE "cex-disabled"))]
             ELSE /\ UNCHANGED dbPreferences
                  /\ userPreferences' = loaded
                  /\ step' = [Quiet("cex") EXCEPT !.chat = chat, !.err = TRUE,
                                 !.sent = SendTo(chat, Reply("sorry"))]
    /\ UNCHANGED <<latestRates, lastFetchTime, previousRates, activeChatIDs,
                   dbSubscribers, now, lastCycle, cycles, probe, procs, published>>

\* the texts that are none of the commands; "" is a message without text
OtherTexts == {"", "hello", "/start now", "/unknown"}

\* main.go:510-514: the default case only logs; the step is "text" for a message with
\* text and "no-text" for one without
Other(chat, text) ==
    /\ text \in OtherTexts
    /\ step' = [Quiet(IF text = "" THEN "no-text" ELSE "text") EXCEPT !.chat = chat]
    /\ UNCHANGED <<latestRates, lastFetchTime, previousRates, activeChatIDs,
                   userPreferences, dbSubscribers, dbPreferences, now, lastCycle,
                   cycles, probe, procs, published>>

\* time passes
Tick ==
    /\ now < MaxTime
    /\ now' = now + 1
    /\ step' = Quiet("tick")
    /\ UNCHANGED <<latestRates, lastFetchTime, previousRates, activeChatIDs,
                   userPreferences, dbSubscribers, dbPreferences, lastCycle, cycles, probe, procs, published>>

-----------------------------------------------------------------------------
(* The timer cycles of a process started on any persisted subscriber set,  *)
(* with chats subscribing and unsubscribing between the cycles.  A cycle is *)
(* one step: it does not overlap another cycle or a command.                *)

Next ==
    \/ cronFetchRates
    \/ \E chat \in Chats : Start(chat)
    \/ \E chat \in Chats : Stop(chat)
    \/ Tick

Spec == Init /\ [][Next]_vars

-----------------------------------------------------------------------------
(* Calls of fetchRates alone, over every combination of answers of the sources *)

NextFetch ==
    \/ FetchCall
    \/ Tick

InitFetch ==
    /\ Startup({}, EmptyMap)
    /\ probe = NoProbe

SpecFetch == InitFetch /\ [][NextFetch]_vars

-----------------------------------------------------------------------------
(* hasSignificantChange on every pair of lending rates within the bound *)

ProbeRates == (0 - MaxProbeRate)..MaxProbeRate

InitChange ==
    /\ Startup({}, EmptyMap)
    /\ \E old \in ProbeRates, new \in ProbeRates :
          probe = [in |-> <<old, new>>, done |-> FALSE, out |-> FALSE]

ProbeChange ==
    /\ ~probe.done
    /\ probe' = [probe EXCEPT !.done = TRUE,
                    !.out = hasSignificantChange(Rate("OKX", "TIA", probe.in[1], 0, "CEX"),
                                                 Rate("OKX", "TIA", probe.in[2], 0, "CEX"))]
    /\ UNCHANGED <<latestRates, lastFetchTime, previousRates, activeChatIDs,
                   userPreferences, dbSubscribers, dbPreferences, now, lastCycle, cycles, step, procs, published>>

NextChange == ProbeChange

SpecChange == InitChange /\ [][NextChange]_vars

-----------------------------------------------------------------------------
(* The command loop next to timer cycles, in a process started on any       *)
(* persisted registry.  Only OKX (a CEX) and Neptune (a DEX) answer.        *)

PersistedPreferences == UNION {[S -> BOOLEAN] : S \in SUBSET Chats}

MixedCalls ==
    {Call(<<a, b, Failed, Failed, Failed>>) : a \in OKXFetchRates, b \in NeptuneFetchRates}

InitCommands ==
    /\ \E subscribers \in SUBSET Chats, preferences \in PersistedPreferences :
          Startup(subscribers, preferences)
    /\ probe = NoProbe

NextCommands ==
    \/ \E call \in MixedCalls : CronWith(call)
    \/ \E chat \in Chats : Start(chat)
    \/ \E chat \in Chats : Stop(chat)
    \/ \E chat \in Chats : Cex(chat)
    \/ \E chat \in Chats : Help(chat)
    \/ \E chat \in Chats, text \in OtherTexts : Other(chat, text)

SpecCommands == InitCommands /\ [][NextCommands]_vars

-----------------------------------------------------------------------------
(* /rate and fetches over the lifetime of the cache, with the answers of OKX *)
(* and Neptune                                                             *)

\* time passes, beyond the lifetime of the cache
Elapse ==
    /\ now < MaxClock
    /\ now' = now + 1
    /\ step' = Quiet("tick")
    /\ UNCHANGED <<latestRates, lastFetchTime, previousRates, activeChatIDs,
                   userPreferences, dbSubscribers, dbPreferences, lastCycle, cycles, probe, procs, published>>

NextCache ==
    \/ \E chat \in Chats, arg \in RateArguments, call \in MixedCalls :
          RateWith(chat, arg, call)
    \/ \E call \in MixedCalls : FetchWith(call)
    \/ Elapse

SpecCache == InitFetch /\ [][NextCache]_vars

-----------------------------------------------------------------------------
(* Subscribing and unsubscribing next to timer cycles, in a process started *)
(* on an empty registry                                                     *)

NextSubscription ==
    \/ \E call \in MixedCalls : CronWith(call)
    \/ \E chat \in Chats : Start(chat)
    \/ \E chat \in Chats : Stop(chat)

SpecSubscription == InitFetch /\ [][NextSubscription]_vars

-----------------------------------------------------------------------------
(* Timer cycles whose sends can fail, in a process started on any persisted *)
(* subscriber set, with chats subscribing and unsubscribing between cycles  *)

NextDelivery ==
    \/ \E call \in MixedCalls : CronSending(call)
    \/ \E chat \in Chats : Start(chat)
    \/ \E chat \in Chats : Stop(chat)

SpecDelivery == Init /\ [][NextDelivery]_vars

-----------------------------------------------------------------------------
(* fetchRates and getRatesWithCache step by step: a timer cycle's fetch and  *)
(* the command loop's /rate run interleaved.  A step is one call of a source *)
(* or one critical section of ratesMutex.                                    *)

Goto(p, pc) == procs' = [procs EXCEPT ![p] = [@ EXCEPT !.pc = pc]]

\* main.go:65-68: fetchRates is entered, by the cron job or by getRatesWithCache
Enter(p, call) ==
    procs' = [procs EXCEPT ![p] = [pc |-> "walk", call |-> call, i |-> 1,
                                   allRates |-> <<>>, errors |-> 0]]

\* main.go:235: a timer cycle calls fetchRates
BeginCycle ==
    /\ procs["timer"].pc = "idle"
    /\ cycles < MaxCycles
    /\ cycles' = cycles + 1
    /\ \E call \in MixedCalls : Enter("timer", call)
    /\ UNCHANGED <<latestRates, lastFetchTime, previousRates, activeChatIDs,
                   userPreferences, dbSubscribers, dbPreferences, now, lastCycle,
                   step, probe, published>>

\* main.go:393: the command loop calls getRatesWithCache
BeginRate ==
    /\ procs["command"].pc = "idle"
    /\ Goto("command", "valid")
    /\ UNCHANGED <<latestRates, lastFetchTime, previousRates, activeChatIDs,
                   userPreferences, dbSubscribers, dbPreferences, now, lastCycle,
                   cycles, step, probe, published>>

\* main.go:108 and 58-62: isCacheValid, one read section
CheckCache ==
    /\ procs["command"].pc = "valid"
    /\ IF isCacheValid
       THEN Goto("command", "read")
       ELSE \E call \in MixedCalls : Enter("command", call)
    /\ UNCHANGED <<latestRates, lastFetchTime, previousRates, activeChatIDs,
                   userPreferences, dbSubscribers, dbPreferences, now, lastCycle,
                   cycles, step, probe, published>>

\* main.go:109 and 51-55: getLatestRates, one read section; the snapshot is returned
ReadCache ==
    /\ procs["command"].pc = "read"
    /\ Goto("command", "idle")
    /\ step' = Report("read", 0, <<>>, FALSE, latestRates, EmptyMap, <<>>, NoSends)
    /\ UNCHANGED <<latestRates, lastFetchTime, previousRates, activeChatIDs,
                   userPreferences, dbSubscribers, dbPreferences, now, lastCycle,
                   cycles, probe, published>>

\* main.go:70-95: one pass of the loop, the call of one source
Walk(p) ==
    LET l    == procs[p]
        resp == l.call.resps[l.i]
    IN /\ l.pc = "walk"
       /\ l.i <= Len(Sources)
       /\ procs' = [procs EXCEPT ![p] =
                       IF resp.err
                       THEN [l EXCEPT !.errors = @ + 1, !.i = @ + 1]
                       ELSE [l EXCEPT !.allRates = @ \o NormalizeAll(resp.rates),
                                      !.i = @ + 1]]
       /\ UNCHANGED <<latestRates, lastFetchTime, previousRates, activeChatIDs,
                      userPreferences, dbSubscribers, dbPreferences, now, lastCycle,
                      cycles, step, probe, published>>

\* main.go:97-103: the failure test, then updateLatestRates in one write section;
\* the call returns
Return(p) ==
    LET l == procs[p]
    IN /\ l.pc = "walk"
       /\ l.i > Len(Sources)
       /\ Goto(p, "idle")
       /\ IF AllSourcesFailed(l.allRates, l.errors)
          THEN /\ step' = Report("fetched", 0, l.call.resps, TRUE, <<>>, EmptyMap, <<>>,
                                 NoSends)
               /\ UNCHANGED <<latestRates, lastFetchTime, published>>
          ELSE /\ updateLatestRates(l.allRates)
               /\ published' = published \cup
                                  {[rates |-> l.call.out.rates, time |-> now]}
               /\ step' = Report("fetched", 0, l.call.resps, FALSE, l.allRates, EmptyMap,
                                 <<>>, NoSends)
       /\ UNCHANGED <<previousRates, activeChatIDs, userPreferences, dbSubscribers,
                      dbPreferences, now, lastCycle, cycles, probe>>

NextInterleaved ==
    \/ BeginCycle
    \/ BeginRate
    \/ CheckCache
    \/ ReadCache
    \/ \E p \in Processes : Walk(p)
    \/ \E p \in Processes : Return(p)
    \/ Tick

SpecInterleaved == InitFetch /\ [][NextInterleaved]_vars

-----------------------------------------------------------------------------
(* Fetches from sources that may never answer.  A goroutine that is able to  *)
(* take a step takes it in the end; a request that gets no answer returns    *)
(* only if its client has a timeout.                                        *)

\* part_011:31-33 and bybit_source.go:39-41 set http.Client.Timeout; OKX, Neptune and
\* Injera call http.Get, whose default client has none
HasTimeout(source) == source \in {"Binance", "Bybit"}

\* OKX answers or fails, the other sources give no rates
WaitingCalls ==
    {Call(<<a, Failed, Failed, Failed, Failed>>) :
        a \in {Failed, Ok(<<Rate("OKX", "TIA", 40, 45, "CEX")>>)}}

\* the source of a call that never answers: Injera, Binance, or (0) none
Unresponsive(call) == {0, 3, 4}

WithSilent(call, silent) == [resps |-> call.resps, out |-> call.out, silent |-> silent]

\* the request to the source the walk is at comes back, with an answer, an error or
\* the error of the client's timeout
Responds(p) ==
    \/ procs[p].i # procs[p].call.silent
    \/ HasTimeout(Sources[procs[p].i])

\* main.go:235: a timer cycle calls fetchRates
BeginCycleWaiting ==
    /\ procs["timer"].pc = "idle"
    /\ cycles < MaxCycles
    /\ cycles' = cycles + 1
    /\ \E call \in WaitingCalls : \E silent \in Unresponsive(call) :
          Enter("timer", WithSilent(call, silent))
    /\ UNCHANGED <<latestRates, lastFetchTime, previousRates, activeChatIDs,
                   userPreferences, dbSubscribers, dbPreferences, now, lastCycle,
                   step, probe, published>>

\* main.go:108 and 58-62: isCacheValid, one read section
CheckCacheWaiting ==
    /\ procs["command"].pc = "valid"
    /\ IF isCacheValid
       THEN Goto("command", "read")
       ELSE \E call \in WaitingCalls : \E silent \in Unresponsive(call) :
               Enter("command", WithSilent(call, silent))
    /\ UNCHANGED <<latestRates, lastFetchTime, previousRates, activeChatIDs,
                   userPreferences, dbSubscribers, dbPreferences, now, lastCycle,
                   cycles, step, probe, published>>

\* main.go:70-95: one pass of the loop, once source.FetchRates() has returned
Await(p) ==
    /\ procs[p].pc = "walk"
    /\ procs[p].i <= Len(Sources)
    /\ Responds(p)
    /\ Walk(p)

NextWaiting ==
    \/ BeginCycleWaiting
    \/ BeginRate
    \/ CheckCacheWaiting
    \/ ReadCache
    \/ \E p \in Processes : Await(p)
    \/ \E p \in Processes : Return(p)

FairWaiting ==
    /\ WF_vars(CheckCacheWaiting)
    /\ WF_vars(ReadCache)
    /\ \A p \in Processes : WF_vars(Await(p)) /\ WF_vars(Return(p))

SpecWaiting == InitFetch /\ [][NextWaiting]_vars /\ FairWaiting

-----------------------------------------------------------------------------
(* Overlapping timer cycles.  The scheduler of cron.New() starts every firing *)
(* of the job in a goroutine of its own and does not wait for the run before *)
(* it; the fetches over http.Get have no timeout, so a run can outlast the   *)
(* two minutes between firings.  A step is the fetch, one pass of the filter *)
(* loop, or one pass of the loop of updatePreviousRates under ratesMutex.    *)

\* the goroutines of two firings of the cron job
Cycles == {"cycle1", "cycle2"}

\* a run of cronFetchRates: its position, its locals rates and filteredRates, the
\* index of the loop it is in and the previous observations it has compared with
Waiting == [pc |-> "idle", rates |-> <<>>, i |-> 0, filtered |-> <<>>, before |-> EmptyMap]

Crashed == [Waiting EXCEPT !.pc = "crashed"]

\* main.go:165: the run holds ratesMutex for writing
Locked(p) == procs[p].pc = "update"

\* main.go:245-250: the rate of this pass gets as far as the lookup of line 251
ReachesLookup(rate) ==
    /\ rate.Token \in DOMAIN lendingThresholds
    /\ rate.LendingRate >= lendingThresholds[rate.Token]

\* main.go:251: the next step of the run is a lookup in previousRates
Reading(p) ==
    /\ procs[p].pc = "filter"
    /\ procs[p].i <= Len(procs[p].rates)
    /\ ReachesLookup(procs[p].rates[procs[p].i])

\* main.go:169-172: the next step of the run is an assignment to previousRates
Writing(p) ==
    /\ procs[p].pc = "update"
    /\ procs[p].i <= Len(procs[p].rates)

\* what a lookup of the pair k can yield while another run is assigning to the map:
\* the table as it is, the table without the pair, or the table with a rate the
\* writer is storing
RacyViews(k, writers) ==
    {previousRates} \cup
    {[j \in DOMAIN previousRates \ {k} |-> previousRates[j]]} \cup
    {[j \in DOMAIN previousRates \cup {k} |-> IF j = k THEN r ELSE previousRates[j]] :
        r \in {x \in UNION {Range(procs[q].rates) : q \in writers} : Key(x) = k}}

\* main.go:235-239: the fetch of a run
FetchFor(p, call) ==
    /\ procs[p].pc = "idle"
    /\ cycles < MaxCycles
    /\ cycles' = cycles + 1
    /\ call.out.err \/ \A q \in Cycles : ~Locked(q)
    /\ PublishRates(call.out)
    /\ procs' = [procs EXCEPT ![p] =
                    IF call.out.err THEN Waiting
                    ELSE [Waiting EXCEPT !.pc = "filter", !.rates = call.out.rates,
                                         !.i = 1]]
    /\ step' = Report("fetched", 0, call.resps, call.out.err, call.out.rates, EmptyMap,
                      <<>>, NoSends)
    /\ UNCHANGED <<previousRates, activeChatIDs, userPreferences, dbSubscribers,
                   dbPreferences, now, lastCycle, probe, published>>

\* main.go:243-256: one pass of the filter loop; the lookup takes no lock, and one made
\* while another run assigns to the map is a data race, which the runtime may stop
\* with a fatal error
Compare(p) ==
    LET l       == procs[p]
        rate    == l.rates[l.i]
        writers == {q \in Cycles \ {p} : Writing(q)}
        views   == IF writers = {} THEN {previousRates}
                   ELSE RacyViews(Key(rate), writers)
    IN /\ l.pc = "filter"
       /\ l.i <= Len(l.rates)
       /\ \/ \E prev \in views :
                procs' = [procs EXCEPT ![p] =
                   [l EXCEPT !.i = @ + 1,
                             !.filtered = IF IsFiltered(rate, prev)
                                          THEN Append(@, rate) ELSE @,
                             !.before = IF ReachesLookup(rate) /\ Key(rate) \in DOMAIN prev
                                        THEN [k \in DOMAIN @ \cup {Key(rate)} |->
                                                 IF k = Key(rate) THEN prev[k] ELSE @[k]]
                                        ELSE @]]
          \/ /\ ReachesLookup(rate)
             /\ writers # {}
             /\ procs' = [q \in Cycles |-> Crashed]
       /\ step' = Quiet("compare")
       /\ UNCHANGED <<latestRates, lastFetchTime, previousRates, activeChatIDs,
                      userPreferences, dbSubscribers, dbPreferences, now, lastCycle,
                      cycles, probe, published>>

\* main.go:259 and 165: the run enters updatePreviousRates and takes ratesMutex
Lock(p) ==
    /\ procs[p].pc = "filter"
    /\ procs[p].i > Len(procs[p].rates)
    /\ \A q \in Cycles : ~Locked(q)
    /\ procs' = [procs EXCEPT ![p] = [@ EXCEPT !.pc = "update", !.i = 1]]
    /\ step' = Quiet("lock")
    /\ UNCHANGED <<latestRates, lastFetchTime, previousRates, activeChatIDs,
                   userPreferences, dbSubscribers, dbPreferences, now, lastCycle,
                   cycles, probe, published>>

\* main.go:168-173: one pass of the loop of updatePreviousRates
Store(p) ==
    /\ Writing(p)
    /\ previousRates' = updatePreviousRates(previousRates, <<procs[p].rates[procs[p].i]>>)
    /\ procs' = [procs EXCEPT ![p] = [@ EXCEPT !.i = @ + 1]]
    /\ step' = Quiet("store")
    /\ UNCHANGED <<latestRates, lastFetchTime, activeChatIDs, userPreferences,
                   dbSubscribers, dbPreferences, now, lastCycle, cycles, probe, published>>

\* main.go:166 and 261-314: the mutex is released and the run sends its messages
Notify(p) ==
    LET l          == procs[p]
        recipients == Recipients(l.filtered, activeChatIDs)
    IN /\ l.pc = "update"
       /\ l.i > Len(l.rates)
       /\ procs' = [procs EXCEPT ![p] = Waiting]
       /\ lastCycle' = l.rates
       /\ \E order \in [recipients -> Perms(tokensWithHighRates(l.filtered))] :
             step' = Report("cron", 0, <<>>, FALSE, l.rates, l.before, l.filtered,
                            [c \in Chats |->
                                IF c \in recipients
                                THEN <<Notification(l.rates, order[c])>> ELSE <<>>])
       /\ UNCHANGED <<latestRates, lastFetchTime, previousRates, activeChatIDs,
                      userPreferences, dbSubscribers, dbPreferences, now, cycles, probe,
                      published>>

InitOverlap ==
    /\ latestRates = <<>>
    /\ lastFetchTime = 0
    /\ previousRates = EmptyMap
    /\ dbSubscribers = {1}
    /\ activeChatIDs = {1}
    /\ userPreferences = EmptyMap
    /\ dbPreferences = EmptyMap
    /\ now = 1
    /\ lastCycle = <<>>
    /\ cycles = 0
    /\ step = Quiet("init")
    /\ procs = [p \in Cycles |-> Waiting]
    /\ published = {}
    /\ probe = NoProbe

NextOverlap ==
    \/ \E p \in Cycles, call \in MixedCalls : FetchFor(p, call)
    \/ \E p \in Cycles : Compare(p)
    \/ \E p \in Cycles : Lock(p)
    \/ \E p \in Cycles : Store(p)
    \/ \E p \in Cycles : Notify(p)

SpecOverlap == InitOverlap /\ [][NextOverlap]_vars

-----------------------------------------------------------------------------
(* The FetchRates of every adapter on the answers its API can give          *)

\* the sequences over S of at most n elements
SeqsUpTo(S, n) == UNION {[1..k -> S] : k \in 0..n}

Json(fields) == [status |-> "json"] @@ fields

\* the answers for one currency ID of OKX
OKXAnswers(name, estimated, pre) ==
    {Down, Garbage, Json([list |-> <<>>])} \cup
    {Json([list |-> <<[currencyName |-> name, estimatedRate |-> e, preRate |-> pre]>>]) :
        e \in estimated}

OKXPayloads ==
    {<<a, b, c>> : a \in OKXAnswers("TIA", {4000, 4100}, 4500),
                   b \in OKXAnswers("USDT", {500}, 600),
                   c \in OKXAnswers("USDC", {500}, 600)}

NeptuneEntry(shaped, denom, rate) == [shaped |-> shaped, denom |-> denom, rate |-> rate]

NeptuneLendEntries ==
    {NeptuneEntry(TRUE, "ibc/2CBC", Spells(0)), NeptuneEntry(TRUE, "ibc/2CBC", Spells(3000)),
     NeptuneEntry(TRUE, "ibc/F51B", Spells(2000)), NeptuneEntry(TRUE, "ibc/2CBC", NotANumber),
     NeptuneEntry(TRUE, "inj", Spells(2000)), NeptuneEntry(FALSE, "ibc/F51B", Spells(2000))}

NeptuneBorrowEntries ==
    {NeptuneEntry(TRUE, "ibc/2CBC", Spells(1000)), NeptuneEntry(TRUE, "ibc/F51B", NotANumber)}

NeptunePayloads ==
    {Down, Garbage} \cup
    {Json([lend |-> l, borrow |-> b]) :
        l \in SeqsUpTo(NeptuneLendEntries, MaxEntries),
        b \in SeqsUpTo(NeptuneBorrowEntries, 1)}

InjeraItem(success, decodes, liquidity, borrow) ==
    [success |-> success, decodes |-> decodes, liquidity |-> liquidity, borrow |-> borrow]

InjeraPayloadItems ==
    {InjeraItem(TRUE, TRUE, Spells(3000), Spells(4000)),
     InjeraItem(TRUE, TRUE, Spells(6000), Spells(4000)),
     InjeraItem(FALSE, TRUE, Spells(3000), Spells(4000)),
     InjeraItem(TRUE, FALSE, Spells(3000), Spells(4000)),
     InjeraItem(TRUE, TRUE, NotANumber, Spells(4000))}

InjeraPayloads ==
    {Down, Garbage} \cup
    {Json([items |-> items]) : items \in SeqsUpTo(InjeraPayloadItems, MaxEntries)}

BinanceProducts ==
    {[asset |-> "FDUSD", apyRange |-> <<Spells(7000)>>],
     [asset |-> "FDUSD", apyRange |-> <<>>],
     [asset |-> "USDT", apyRange |-> <<NotANumber>>],
     [asset |-> "USDT", apyRange |-> <<Spells(1000), Spells(2000)>>],
     [asset |-> "BTC", apyRange |-> <<Spells(100)>>]}

BinancePayloads ==
    {Down, Garbage, Json([code |-> 500, success |-> FALSE, list |-> <<>>]),
     Json([code |-> 200, success |-> FALSE, list |-> <<>>])} \cup
    {Json([code |-> 200, success |-> TRUE, list |-> list]) :
        list \in SeqsUpTo(BinanceProducts, MaxEntries)}

\* the answers for one product ID of Bybit
BybitAnswers(names) ==
    {Down, Garbage, Json([retCode |-> 1, name |-> "", tiers |-> <<>>])} \cup
    {Json([retCode |-> 0, name |-> n, tiers |-> t]) :
        n \in names,
        t \in {<<Spells(50000000)>>, <<Spells(50000000), NotANumber>>,
               <<Spells(50000000), Spells(90000000)>>}}

BybitPayloads == {<<a, b>> : a \in BybitAnswers({"USDT", "DAI"}), b \in BybitAnswers({"USDC"})}

PayloadsOf(source) ==
    CASE source = "OKX" -> OKXPayloads
      [] source = "Neptune" -> NeptunePayloads
      [] source = "Injera" -> InjeraPayloads
      [] source = "Binance" -> BinancePayloads
      [] source = "Bybit" -> BybitPayloads

\* what FetchRates of the source can return on the payload
FetchRatesOn(source, payload) ==
    CASE source = "OKX" -> {OKXSourceFetchRates(payload)}
      [] source = "Neptune" ->
            IF payload.status # "json" THEN {Failed}
            ELSE {NeptuneSourceFetchRates(payload, order) :
                     order \in Perms(DOMAIN NeptuneRatesByToken(payload))}
      [] source = "Injera" -> {InjeraSourceFetchRates(payload)}
      [] source = "Binance" -> {BinanceSimpleEarnSourceFetchRates(payload)}
      [] source = "Bybit" -> {BybitSourceFetchRates(payload)}

InitAdapters ==
    /\ Startup({}, EmptyMap)
    /\ \E source \in Range(Sources) : \E payload \in PayloadsOf(source) :
          probe = [in |-> <<source, payload>>, done |-> FALSE, out |-> FALSE]

ProbeAdapter ==
    /\ ~probe.done
    /\ \E out \in FetchRatesOn(probe.in[1], probe.in[2]) :
          probe' = [probe EXCEPT !.done = TRUE, !.out = out]
    /\ UNCHANGED <<latestRates, lastFetchTime, previousRates, activeChatIDs,
                   userPreferences, dbSubscribers, dbPreferences, now, lastCycle,
                   cycles, step, procs, published>>

NextAdapters == ProbeAdapter

SpecAdapters == InitAdapters /\ [][NextAdapters]_vars

-----------------------------------------------------------------------------
(* formatRate on every lending rate and threshold within the bounds; the    *)
(* thresholds are those of a configuration, or 0 for a token without one    *)

FormatRates == (0 - MaxProbeRate)..(2 * MaxProbeRate)

ProbeThresholds == 0..MaxProbeThreshold

InitFormat ==
    /\ Startup({}, EmptyMap)
    /\ \E lending \in FormatRates, threshold \in ProbeThresholds :
          probe = [in |-> <<lending, threshold>>, done |-> FALSE, out |-> FALSE]

ProbeFormat ==
    /\ ~probe.done
    /\ probe' = [probe EXCEPT !.done = TRUE,
                    !.out = formatRate(Rate("OKX", "TIA", probe.in[1], 0, "CEX"),
                                       probe.in[2])]
    /\ UNCHANGED <<latestRates, lastFetchTime, previousRates, activeChatIDs,
                   userPreferences, dbSubscribers, dbPreferences, now, lastCycle, cycles, step, procs, published>>

NextFormat == ProbeFormat

SpecFormat == InitFormat /\ [][NextFormat]_vars

-----------------------------------------------------------------------------
(* Properties *)

RECURSIVE SeqSum(_)
SeqSum(s) == IF s = <<>> THEN 0 ELSE Head(s) + SeqSum(Tail(s))

CountOf(rates, source, token) ==
    Cardinality({i \in DOMAIN rates : rates[i].Source = source /\ rates[i].Token = token})

TokensOf(rates) == {r.Token : r \in Range(rates)}

AllFailed(resps) == \A i \in DOMAIN resps : resps[i].err

NothingSent(sent) == \A c \in Chats : sent[c] = <<>>

\* abs((current - previous) / previous) * 100 >= 5, written without the division
ChangeOfFivePercent(previous, current) ==
    LET d == current - previous
    IN IF previous > 0
       THEN d * 100 >= 5 * previous \/ d * 100 <= 0 - 5 * previous
       ELSE d * 100 <= 5 * previous \/ d * 100 >= 0 - 5 * previous

\* a rate that passes the threshold filter and the change detector
PassesBoth(rate, prev) ==
    /\ rate.Token \in DOMAIN lendingThresholds
    /\ rate.LendingRate >= lendingThresholds[rate.Token]
    /\ \/ Key(rate) \notin DOMAIN prev
       \/ prev[Key(rate)].LendingRate = 0
       \/ ChangeOfFivePercent(prev[Key(rate)].LendingRate, rate.LendingRate)

\* the step just taken is a timer cycle
CycleRan == cycles' = cycles + 1

\* C1: a call of fetchRates either replaces the cached snapshot and its timestamp
\* together, with the result of the call and the time of the call, or, when it
\* returns the failure, leaves both as they were.
C1_SnapshotReplacedOrKept ==
    [][step'.op = "fetch" =>
          IF step'.err
          THEN latestRates' = latestRates /\ lastFetchTime' = lastFetchTime
          ELSE latestRates' = step'.rates /\ lastFetchTime' = now]_vars

\* a failed call that kept a snapshot fetched at an earlier time
C1_Witness ==
    /\ step.op = "fetch"
    /\ step.err
    /\ latestRates # <<>>
    /\ lastFetchTime # 0
    /\ lastFetchTime < now

\* C2: fetchRates returns the failure if and only if every source returned an
\* error; one source that answers, even with an empty list, makes it a success.
C2_FailureIffEverySourceFailed ==
    step.op = "fetch" => (step.err <=> AllFailed(step.resps))

\* C3: the result of a successful call holds exactly the rates of the sources that
\* answered: as many as they returned together, and of each source and token as
\* many as that source returned; a failed source contributes none.
C3_MergedIsWhatWasAnswered ==
    (step.op = "fetch" /\ ~step.err) =>
        /\ Len(step.rates) =
              SeqSum([i \in DOMAIN step.resps |->
                         IF step.resps[i].err THEN 0 ELSE Len(step.resps[i].rates)])
        /\ \A i \in DOMAIN step.resps :
              \A token \in TokensOf(step.rates) \cup TokensOf(step.resps[i].rates) :
                 CountOf(step.rates, Sources[i], token) =
                    IF step.resps[i].err THEN 0
                    ELSE CountOf(step.resps[i].rates, Sources[i], token)

\* a source fails between two that answer, one of them with two rates
C3_Witness ==
    /\ step.op = "fetch"
    /\ ~step.err
    /\ ~step.resps[1].err
    /\ step.resps[2].err
    /\ ~step.resps[3].err
    /\ Len(step.resps[3].rates) = 2
    /\ Len(step.rates) = 5

\* C4: a timer cycle in which every source fails sends no message and leaves the
\* cache, its timestamp and the previous-rate table unchanged.
C4_FailedCycleChangesNothing ==
    [][(CycleRan /\ AllFailed(step'.resps)) =>
          /\ NothingSent(step'.sent)
          /\ latestRates' = latestRates
          /\ lastFetchTime' = lastFetchTime
          /\ previousRates' = previousRates]_vars

\* every source fails in a cycle that follows a successful one, with subscribers
C4_Witness ==
    /\ step.op = "cron"
    /\ AllFailed(step.resps)
    /\ latestRates # <<>>
    /\ previousRates # EmptyMap
    /\ activeChatIDs # {}

\* C5: in a successful cycle, if at least one fetched rate passes the threshold
\* filter and the change detector, every chat of the subscriber set is sent exactly
\* one message and no other chat is sent any; otherwise no message is sent.
C5_OneMessagePerSubscriber ==
    [][(CycleRan /\ ~step'.err) =>
          LET pass == \E i \in DOMAIN step'.rates :
                         PassesBoth(step'.rates[i], previousRates)
          IN \A c \in Chats :
                IF pass /\ c \in activeChatIDs
                THEN Len(step'.sent[c]) = 1 /\ step'.sent[c][1].kind = "notify"
                ELSE step'.sent[c] = <<>>]_vars

\* a cycle that flagged a rate and sent one message to each of two subscribers
C5_Witness ==
    /\ step.op = "cron"
    /\ ~step.err
    /\ step.filtered # <<>>
    /\ Cardinality(activeChatIDs) = 2
    /\ \A c \in activeChatIDs : Len(step.sent[c]) = 1

\* C6: a fetched rate at or above its token's threshold with no previous entry for
\* its (token, source) pair is flagged.
C6_FirstObservationIsFlagged ==
    [][(CycleRan /\ ~step'.err) =>
          \A i \in DOMAIN step'.rates :
             LET r == step'.rates[i]
             IN (/\ r.Token \in DOMAIN lendingThresholds
                 /\ r.LendingRate >= lendingThresholds[r.Token]
                 /\ Key(r) \notin DOMAIN previousRates)
                => r \in Range(step'.filtered)]_vars

\* a pair seen for the first time is flagged in a cycle that also fetched a known pair
C6_Witness ==
    /\ step.op = "cron"
    /\ step.before # EmptyMap
    /\ \E r \in Range(step.filtered) : Key(r) \notin DOMAIN step.before

\* C7: for a previous lending rate other than 0 the detector returns true exactly
\* when abs((current - previous) / previous) * 100 >= 5; for a previous lending
\* rate of 0 it returns true.
C7_DetectorIsFivePercent ==
    probe.done =>
        probe.out = (IF probe.in[1] = 0 THEN TRUE
                     ELSE ChangeOfFivePercent(probe.in[1], probe.in[2]))

\* a decrease of exactly 5 percent is a significant change
C7_Witness ==
    /\ probe.done
    /\ probe.in = <<40, 38>>
    /\ probe.out

\* C8: after a successful cycle, the previous-rate table holds, for every fetched
\* rate, that rate under its (token, source) pair.
C8_EveryFetchedRateIsStored ==
    (step.op = "cron" /\ ~step.err) =>
        \A i \in DOMAIN step.rates :
           /\ Key(step.rates[i]) \in DOMAIN previousRates
           /\ previousRates[Key(step.rates[i])] = step.rates[i]

\* C9: a rate fetched with the same nonzero lending rate for its (token, source)
\* pair as in the previous successful cycle is not flagged, and if no other rate is
\* flagged no message is sent.
C9_RepeatedRateIsNotFlagged ==
    [][(CycleRan /\ ~step'.err) =>
          LET repeated(r) == /\ r.LendingRate # 0
                             /\ \E j \in DOMAIN lastCycle :
                                   /\ Key(lastCycle[j]) = Key(r)
                                   /\ lastCycle[j].LendingRate = r.LendingRate
              flagged(r) == r \in Range(step'.filtered)
          IN /\ \A r \in Range(step'.rates) : repeated(r) => ~flagged(r)
             /\ (\A r \in Range(step'.rates) : flagged(r) => repeated(r))
                   => NothingSent(step'.sent)]_vars

\* C10: a rate of a token without a threshold is never flagged, and no notification
\* of a timer cycle has a section for such a token.
C10_UnconfiguredTokenIsIgnored ==
    step.op = "cron" =>
        /\ \A r \in Range(step.filtered) : r.Token \in DOMAIN lendingThresholds
        /\ \A c \in Chats : \A m \in DOMAIN step.sent[c] :
              \A k \in DOMAIN step.sent[c][m].body :
                 step.sent[c][m].body[k].token \in DOMAIN lendingThresholds

\* a cycle fetched a token without a threshold, far above the others, and notified
C10_Witness ==
    /\ step.op = "cron"
    /\ \E r \in Range(step.rates) :
          r.Token \notin DOMAIN lendingThresholds /\ r.LendingRate >= 90
    /\ \E c \in Chats : step.sent[c] # <<>>

\* the preference a chat has: the cached value, else the stored one, else true
PreferenceOf(chat) ==
    IF chat \in DOMAIN userPreferences THEN userPreferences[chat] ELSE GetShowCEX(chat)

\* a rate with lendingRate >= threshold[token]
IsCandidate(rate) ==
    /\ rate.Token \in DOMAIN lendingThresholds
    /\ rate.LendingRate >= lendingThresholds[rate.Token]

\* the message has a section of the token with one row for every rate of the list
HasAllRowsOf(msg, rates, token) ==
    \E k \in DOMAIN msg.body :
       /\ msg.body[k].token = token
       /\ Len(msg.body[k].rows) = Len(SelectSeq(rates, LAMBDA r : r.Token = token))
       /\ \A r \in Range(rates) :
             r.Token = token =>
                \E j \in DOMAIN msg.body[k].rows :
                   /\ msg.body[k].rows[j].source = r.Source
                   /\ msg.body[k].rows[j].lending = r.LendingRate
                   /\ msg.body[k].rows[j].borrow = r.BorrowRate

\* C11: every notification of a timer cycle holds, for every token that has a
\* candidate rate in the cycle, all the rates fetched in the cycle for that token.
C11_CandidateTokensAreListed ==
    step.op = "cron" =>
        \A c \in Chats : \A m \in DOMAIN step.sent[c] :
           \A r \in Range(step.rates) :
              IsCandidate(r) => HasAllRowsOf(step.sent[c][m], step.rates, r.Token)

\* C12: in a notification of a timer cycle, the message of a subscriber whose
\* preference is false has no row of a CEX rate, and the message of a subscriber
\* whose preference is true has the rows of the CEX rates of its sections.
C12_CEXRowsFollowPreference ==
    step.op = "cron" =>
        \A c \in Chats : \A m \in DOMAIN step.sent[c] :
           \A k \in DOMAIN step.sent[c][m].body :
              LET section == step.sent[c][m].body[k]
              IN \A r \in Range(step.rates) :
                    (r.Token = section.token /\ r.Category = "CEX") =>
                       ((\E j \in DOMAIN section.rows : section.rows[j].source = r.Source)
                           <=> PreferenceOf(c))

TokenRank(token) == CHOOSE i \in DOMAIN TokenOrder : TokenOrder[i] = token

SectionsAscend(msg) ==
    \A i, j \in DOMAIN msg.body :
       i < j => TokenRank(msg.body[i].token) < TokenRank(msg.body[j].token)

RowsAscend(msg) ==
    \A k \in DOMAIN msg.body :
       \A i, j \in DOMAIN msg.body[k].rows :
          i < j => SourceRank(msg.body[k].rows[i].source)
                      <= SourceRank(msg.body[k].rows[j].source)

\* C13: in every notification of a timer cycle and every /rate listing of all
\* tokens, the token sections are in ascending order of token symbol and the rows
\* of each section in ascending order of source.
C13_SectionsAndRowsAscend ==
    \A c \in Chats : \A m \in DOMAIN step.sent[c] :
       step.sent[c][m].kind \in {"notify", "rates"} =>
          SectionsAscend(step.sent[c][m]) /\ RowsAscend(step.sent[c][m])

\* C14: two subscribers with the same preference are sent identical text by the
\* same timer cycle.
C14_SameRenderingForSamePreference ==
    step.op = "cron" =>
        \A c, d \in Chats :
           (step.sent[c] # <<>> /\ step.sent[d] # <<>> /\ PreferenceOf(c) = PreferenceOf(d))
              => step.sent[c] = step.sent[d]

\* C15: formatRate marks the lending rate as high-alert iff it is at least twice
\* the threshold, as notable iff it is at least the threshold and below twice the
\* threshold, and leaves it plain iff it is below the threshold; exactly one applies.
C15_MarkerByThreshold ==
    probe.done =>
        LET lending   == probe.in[1]
            threshold == probe.in[2]
            marker    == probe.out.marker
        IN /\ marker \in {"fire", "bold", "plain"}
           /\ marker = "fire" <=> lending >= 2 * threshold
           /\ marker = "bold" <=> (threshold <= lending /\ lending < 2 * threshold)
           /\ marker = "plain" <=> lending < threshold
           /\ probe.out.lending = lending

\* a lending rate of exactly twice the threshold gets the high-alert marker
C15_Witness ==
    /\ probe.done
    /\ probe.in = <<60, 30>>
    /\ probe.out.marker = "fire"

\* the step just taken is a /start (a /stop) of the chat that completed successfully
Subscribed(chat) == step'.op = "start" /\ step'.chat = chat /\ ~step'.err

Unsubscribed(chat) == step'.op = "stop" /\ step'.chat = chat /\ ~step'.err

\* C16: a chat is in the subscriber set from its successful /start until its next
\* successful /stop and out of it from its successful /stop until its next
\* successful /start, and a notifying timer cycle sends its notification to exactly
\* the chats that are in the set when it starts.
C16_NotifiedFromStartUntilStop ==
    [][/\ \A c \in Chats :
             /\ Subscribed(c) => c \in activeChatIDs'
             /\ Unsubscribed(c) => c \notin activeChatIDs'
             /\ ~(Subscribed(c) \/ Unsubscribed(c))
                   => (c \in activeChatIDs' <=> c \in activeChatIDs)
       /\ (CycleRan /\ ~NothingSent(step'.sent))
             => \A c \in Chats : step'.sent[c] # <<>> <=> c \in activeChatIDs]_vars

\* in a process started without subscribers, the second cycle notifies chat 1, which
\* has subscribed, and not chat 2
C16_Witness ==
    /\ step.op = "cron"
    /\ cycles = 2
    /\ step.sent[1] # <<>>
    /\ step.sent[2] = <<>>
    /\ activeChatIDs = {1}

\* C17: a message with a text that is none of the commands is answered with the
\* help listing, sent to its sender.
C17_UnknownTextGetsHelp ==
    step.op = "text" => step.sent[step.chat] = <<Reply("help")>>

\* the preference of a chat after the step
PreferenceAfter(chat) ==
    IF chat \in DOMAIN userPreferences' THEN userPreferences'[chat]
    ELSE IF chat \in DOMAIN dbPreferences' THEN dbPreferences'[chat]
    ELSE TRUE

\* C18: a successful /cex sets the preference of its sender to the negation of the
\* value it had before, true being the value of a chat without a stored preference,
\* and leaves the preference of every other chat unchanged.
C18_CexNegatesPreference ==
    [][(step'.op = "cex" /\ ~step'.err) =>
          \A c \in Chats :
             PreferenceAfter(c) = IF c = step'.chat THEN ~PreferenceOf(c)
                                  ELSE PreferenceOf(c)]_vars

\* a successful fetch has completed and less than 5 minutes have elapsed since it
FreshByClaim == lastFetchTime # 0 /\ now < lastFetchTime + 5

\* C19: /rate's getRatesWithCache returns the cached snapshot without calling any
\* source exactly when the cache is fresh; otherwise (never fetched, or 5 minutes or
\* more elapsed) it calls every source.
C19_CacheUsedIffFresh ==
    [][step'.op = "rate" =>
          IF FreshByClaim
          THEN step'.resps = <<>> /\ ~step'.err /\ step'.rates = latestRates
          ELSE Len(step'.resps) = Len(Sources)]_vars

\* a /rate exactly 5 minutes after the last successful fetch called the sources (which
\* all failed, so the timestamp is still that of the earlier fetch)
C19_Witness ==
    /\ step.op = "rate"
    /\ step.err
    /\ Len(step.resps) = Len(Sources)
    /\ lastFetchTime # 0
    /\ now = lastFetchTime + 5

\* the snapshots that completed fetchRates calls stored, and the initial empty one
CompleteSnapshots == {<<>>} \cup {p.rates : p \in published}

\* C20: under every interleaving of a timer cycle's fetch with the reads and fetches
\* of /rate, a snapshot returned by getLatestRates or getRatesWithCache is the initial
\* empty one or the complete merged result of one fetchRates call, and the cached
\* timestamp is that of the call that stored the cached snapshot.
C20_SnapshotsAreWhole ==
    /\ (step.op \in {"read", "fetched"} /\ ~step.err) => step.rates \in CompleteSnapshots
    /\ \/ latestRates = <<>> /\ lastFetchTime = 0
       \/ [rates |-> latestRates, time |-> lastFetchTime] \in published

\* getLatestRates returned the snapshot of the second of two fetches, stored by the
\* timer while the command stood between isCacheValid and getLatestRates
C20_Witness ==
    /\ step.op = "read"
    /\ Cardinality(published) = 2
    /\ step.rates = latestRates
    /\ lastFetchTime = now
    /\ \E p \in published : p.time < now /\ p.rates # latestRates

\* C21: every read and every write of the previous-rate table is made under mutual
\* exclusion: in no state is one timer cycle about to read previousRates while an
\* overlapping timer cycle is in the middle of writing it.
C21_PreviousRatesAccessExcluded ==
    \A p, q \in Cycles : ~(p # q /\ Reading(p) /\ Writing(q))

\* C22: in a notifying timer cycle in which the send to a recipient fails, every chat
\* of the subscriber set is still handed its message, whatever the order in which the
\* recipients are taken.
C22_FailedSendDoesNotAbort ==
    (step.op = "cron" /\ step.failed # {}) =>
        \A c \in activeChatIDs : Len(step.sent[c]) = 1

\* the send to the first recipient failed and the second was sent its message
C22_Witness ==
    /\ step.op = "cron"
    /\ step.queue = <<1, 2>>
    /\ step.failed = {1}
    /\ Len(step.sent[2]) = 1

\* C23: a notification whose send to a recipient failed is not sent to that recipient
\* again within the cycle, and when the next successful timer cycle fetches the same
\* rates, still at or above their thresholds, that recipient is sent the notification
\* in that next cycle.
C23_FailedSendIsRetriedNextCycle ==
    [][\A c \in Chats :
          (/\ step.op = "cron"
           /\ c \in step.failed
           /\ step'.op = "cron"
           /\ ~step'.err
           /\ step'.rates = step.rates
           /\ c \in activeChatIDs)
          => /\ Len(step.sent[c]) = 1
             /\ Len(step'.sent[c]) = 1]_vars

\* a /start, /stop or /cex whose registry write failed has just been handled
WriteFailed(report) == report.op \in {"start", "stop", "cex"} /\ report.err

\* the sender, and nobody else, was sent the fixed try-again-later message
ToldToRetry(report) ==
    \A c \in Chats :
        report.sent[c] = IF c = report.chat THEN <<Reply("sorry")>> ELSE <<>>

\* C24 (as stated): when the registry write of /start, /stop or /cex fails, the sender
\* is sent the fixed try-again-later message, the in-memory subscriber set and the
\* in-memory preference cache are left unchanged, and the command loop goes on.
C24_FailedWriteLeavesMemoryUntouched ==
    [][WriteFailed(step') =>
          /\ ToldToRetry(step')
          /\ activeChatIDs' = activeChatIDs
          /\ userPreferences' = userPreferences]_vars

\* C24 (amended): when the registry write of /start, /stop or /cex fails, the sender is
\* sent the fixed try-again-later message, the registry and the in-memory subscriber
\* set are left unchanged, the preference cache keeps every entry it had and gains at
\* most the sender's stored preference (which /cex reads before it writes), and the
\* command loop can handle a following message.
C24_FailedWriteKeepsSubscribersAndPreferences ==
    /\ [][WriteFailed(step') =>
             /\ ToldToRetry(step')
             /\ activeChatIDs' = activeChatIDs
             /\ dbSubscribers' = dbSubscribers
             /\ dbPreferences' = dbPreferences
             /\ \A c \in DOMAIN userPreferences :
                   c \in DOMAIN userPreferences' /\ userPreferences'[c] = userPreferences[c]
             /\ \A c \in DOMAIN userPreferences' \ DOMAIN userPreferences :
                   /\ c = step'.chat
                   /\ step'.op = "cex"
                   /\ userPreferences'[c] = GetShowCEX(c)]_vars
    /\ [](WriteFailed(step) => \A chat \in Chats : ENABLED Help(chat))

\* a /cex whose write failed after the sender's stored preference was read
C24_Witness ==
    /\ step.op = "cex"
    /\ step.err
    /\ step.chat \in DOMAIN userPreferences
    /\ step.chat \in DOMAIN dbPreferences
    /\ userPreferences[step.chat] = FALSE

\* the answers a payload is made of
AnswersOf(source, payload) ==
    IF source \in {"OKX", "Bybit"} THEN Range(payload) ELSE {payload}

\* every request was answered, and with the JSON expected
Parsed(source, payload) ==
    \A a \in AnswersOf(source, payload) :
        a.status = "json" /\ (source = "Binance" => a.code = 200)

\* the data the payload holds, one by one, as <<token, usable>>
DataOf(source, payload) ==
    CASE source = "OKX" ->
            {<<IF a.list = <<>> THEN "?" ELSE a.list[1].currencyName, a.list # <<>>>> :
                a \in Range(payload)}
      [] source = "Bybit" ->
            {<<a.name, a.retCode = 0 /\ Len(a.tiers) > 1 /\ a.tiers[2].ok>> :
                a \in Range(payload)}
      [] source = "Neptune" ->
            {<<IF e.denom \in DOMAIN NeptuneTokens THEN NeptuneTokens[e.denom] ELSE "?",
               e.shaped /\ e.rate.ok>> :
                e \in {x \in Range(payload.lend) \cup Range(payload.borrow) :
                          ~x.shaped \/ x.denom \in DOMAIN NeptuneTokens}}
      [] source = "Injera" ->
            {<<"USDT", i.success /\ i.decodes /\ i.liquidity.ok /\ i.borrow.ok>> :
                i \in Range(payload.items)}
      [] source = "Binance" ->
            {<<p.asset, \E i \in DOMAIN p.apyRange : p.apyRange[i].ok>> :
                p \in {x \in Range(payload.list) : x.asset \in {"USDT", "FDUSD"}}}

\* the tokens all of whose data are valid
UsableTokens(source, payload) ==
    LET data == DataOf(source, payload)
    IN {d[1] : d \in {x \in data : x[2]}} \ {d[1] : d \in {x \in data : ~x[2]}}

HasMalformed(source, payload) == \E d \in DataOf(source, payload) : ~d[2]

\* C25: for every adapter, when the data of one of its tokens is malformed or missing
\* and the data of other tokens is valid, FetchRates returns, without error, the rates
\* of the other tokens and no rate of that token.
C25_MalformedTokenIsSkipped ==
    (/\ probe.done
     /\ Parsed(probe.in[1], probe.in[2])
     /\ HasMalformed(probe.in[1], probe.in[2])
     /\ UsableTokens(probe.in[1], probe.in[2]) # {})
    => /\ ~probe.out.err
       /\ TokensOf(probe.out.rates) = UsableTokens(probe.in[1], probe.in[2])

\* C26: FetchRates of an adapter returns an error only when a request failed or its
\* answer is not the JSON expected, and a parsed payload without a usable rate gives
\* the empty list without error.
C26_ErrorOnlyWhenUnreadable ==
    probe.done =>
        /\ probe.out.err => ~Parsed(probe.in[1], probe.in[2])
        /\ (/\ Parsed(probe.in[1], probe.in[2])
            /\ \A d \in DataOf(probe.in[1], probe.in[2]) : ~d[2])
           => ~probe.out.err /\ probe.out.rates = <<>>

\* C27: every timer cycle and every /rate command completes in the end even when a
\* source never answers: the fetch it is in returns, the silent source counting as a
\* failure of that adapter.
C27_FetchesComplete ==
    \A p \in Processes : (procs[p].pc # "idle") ~> (procs[p].pc = "idle")

\* what a /rate command leaves alone: the previous-rate table, which it does not
\* consult, the subscriber set, the registry, and the chats other than the sender;
\* the cache is left alone unless it was stale
RateFrame ==
    /\ previousRates' = previousRates
    /\ step'.before = EmptyMap
    /\ step'.filtered = <<>>
    /\ activeChatIDs' = activeChatIDs
    /\ dbSubscribers' = dbSubscribers
    /\ dbPreferences' = dbPreferences
    /\ \A c \in Chats \ {step'.chat} : step'.sent[c] = <<>>
    /\ FreshByClaim => latestRates' = latestRates /\ lastFetchTime' = lastFetchTime

\* C28 (as stated): a /rate command never reads or modifies the previous-rate table,
\* never changes the subscriber set or a preference, sends to the sender only, and
\* changes no shared state but the cache snapshot and timestamp, these only when the
\* cache was stale.
C28_RateChangesOnlyStaleCache ==
    [][step'.op = "rate" =>
          /\ RateFrame
          /\ userPreferences' = userPreferences]_vars

\* C28 (amended): a /rate command never reads or modifies the previous-rate table,
\* never changes the subscriber set or a stored preference, sends to the sender only,
\* and changes no shared state but the cache snapshot and timestamp, these only when
\* the cache was stale, and the in-memory preference cache, which keeps its entries
\* and gains at most the sender's stored preference.
C28_RateChangesOnlyCaches ==
    [][step'.op = "rate" =>
          /\ RateFrame
          /\ \A c \in DOMAIN userPreferences :
                c \in DOMAIN userPreferences' /\ userPreferences'[c] = userPreferences[c]
          /\ \A c \in DOMAIN userPreferences' \ DOMAIN userPreferences :
                c = step'.chat /\ userPreferences'[c] = GetShowCEX(c)]_vars

\* a /rate for one token found the cache stale, fetched, and loaded the sender's
\* preference to decide on a CEX rate
C28_Witness ==
    /\ step.op = "rate"
    /\ step.resps # <<>>
    /\ ~step.err
    /\ latestRates = step.rates
    /\ lastFetchTime = now
    /\ step.chat \in DOMAIN userPreferences
    /\ step.sent[step.chat] # <<>>

\* C29: in every reachable state the cached snapshot holds at most one rate for each
\* pair of source and token.
C29_OneRatePerSourceAndToken ==
    \A i, j \in DOMAIN latestRates :
        (/\ latestRates[i].Source = latestRates[j].Source
         /\ latestRates[i].Token = latestRates[j].Token) => i = j

\* C30: every rate of the cached snapshot, whichever adapter it comes from, has the
\* category CEX or DEX.
C30_CategoryIsCEXOrDEX ==
    \A i \in DOMAIN latestRates : latestRates[i].Category \in {"CEX", "DEX"}

\* the sources whose adapters return simple APR
OnChain == {"Neptune", "Injera"}

\* what the claim expects of the rate r returned by the adapter of source
Expected(source, r) ==
    IF source \in OnChain
    THEN [r EXCEPT !.LendingRate = convertAPRtoAPY(r.LendingRate, Compounds),
                   !.BorrowRate = convertAPRtoAPY(r.BorrowRate, Compounds)]
    ELSE r

ExpectedSnapshot(resps) ==
    Concat([i \in DOMAIN resps |->
               IF resps[i].err THEN <<>>
               ELSE [k \in DOMAIN resps[i].rates |-> Expected(Sources[i], resps[i].rates[k])]])

\* C31: the snapshot that a successful call of fetchRates stores holds, for every
\* answering source in order, the rates its adapter returned: converted from APR to
\* APY once, with 365 compounding periods, for Neptune and Injera, and as returned for
\* OKX, Binance and Bybit.
C31_ConvertedOnceOrPassedThrough ==
    (step.op = "fetch" /\ ~step.err) =>
        /\ latestRates = ExpectedSnapshot(step.resps)
        /\ step.rates = ExpectedSnapshot(step.resps)

\* a snapshot with an on-chain rate that the conversion changed and an exchange rate
C31_Witness ==
    /\ step.op = "fetch"
    /\ ~step.err
    /\ \E i \in DOMAIN step.resps :
          /\ Sources[i] \in OnChain
          /\ ~step.resps[i].err
          /\ \E k \in DOMAIN step.resps[i].rates :
                LET r == step.resps[i].rates[k]
                IN /\ Expected(Sources[i], r).LendingRate # r.LendingRate
                   /\ Expected(Sources[i], r) \in Range(latestRates)
    /\ \E i \in DOMAIN step.resps :
          /\ Sources[i] \notin OnChain
          /\ ~step.resps[i].err
          /\ step.resps[i].rates # <<>>
          /\ step.resps[i].rates[1] \in Range(latestRates)

-----------------------------------------------------------------------------
(* A run of timer cycles long enough for a source to answer, fail and       *)
(* answer again: the answers of OKX and Neptune, one subscriber             *)

InitHistory ==
    /\ Startup({1}, EmptyMap)
    /\ probe = NoProbe

NextHistory == \E call \in MixedCalls : CronCycleWithin(call, FALSE, MaxHistory)

SpecHistory == InitHistory /\ [][NextHistory]_vars

\* main.go:244-251: the rates of a cycle whose previous observation is looked up and found
Compared(report) ==
    {r \in Range(report.rates) :
        /\ r.Token \in DOMAIN lendingThresholds
        /\ r.LendingRate >= lendingThresholds[r.Token]
        /\ Key(r) \in DOMAIN report.before}

\* C32: in every timer cycle that follows a timer cycle, the previous observation a rate
\* is compared with is a rate fetched by the cycle immediately before.
C32_ComparedWithPrecedingCycle ==
    [][(step.op = "cron" /\ step'.op = "cron") =>
          \A r \in Compared(step') : step'.before[Key(r)] \in Range(step.rates)]_vars

-----------------------------------------------------------------------------
(* The send loop of a timer cycle next to the command loop.  The cron job    *)
(* runs in a goroutine of its own, the command loop in main; neither takes a *)
(* lock for activeChatIDs or userPreferences.  A step of the cycle is the    *)
(* fetch with the filter, one advance of the range over activeChatIDs, or    *)
(* the message of one recipient; a step of a command is its database call or *)
(* its assignment to the map.                                                *)

\* the timer cycle: its position, its rates and filteredRates, the recipients its
\* range has yielded and the one it is at
Sleeping == [pc |-> "idle", rates |-> <<>>, filtered |-> <<>>, visited |-> {}, chat |-> 0]

\* the command loop: its position, the command it is handling, its chat and the
\* preference it is about to store
Listening == [pc |-> "idle", op |-> "", chat |-> 0, value |-> FALSE]

Halted == [pc |-> "crashed", op |-> "", chat |-> 0, value |-> FALSE]

\* main.go:279: the range over activeChatIDs has begun and not ended
Iterating == procs["timer"].pc \in {"range", "prefer"}

\* main.go:288 and 141: the cycle is at the lookup in userPreferences
ReadingPreferences == procs["timer"].pc = "prefer"

\* main.go:372 and 386: the command loop is at its assignment to activeChatIDs
WritingSubscribers ==
    procs["command"].pc = "store" /\ procs["command"].op \in {"start", "stop"}

\* main.go:502: the command loop is at its assignment to userPreferences
WritingPreferences ==
    procs["command"].pc = "store" /\ procs["command"].op = "cex"

\* main.go:235-276: the fetch, the filter and updatePreviousRates of a cycle
RunCycle(call) ==
    LET out      == call.out
        filtered == filterRates(out.rates, previousRates)
    IN /\ procs["timer"].pc = "idle"
       /\ cycles < MaxCycles
       /\ cycles' = cycles + 1
       /\ PublishRates(out)
       /\ IF out.err
          THEN UNCHANGED <<previousRates, lastCycle, procs>>
          ELSE /\ previousRates' = updatePreviousRates(previousRates, out.rates)
               /\ lastCycle' = out.rates
               /\ procs' = [procs EXCEPT !["timer"] =
                              IF Len(filtered) > 0
                              THEN [Sleeping EXCEPT !.pc = "range", !.rates = out.rates,
                                                    !.filtered = filtered]
                              ELSE Sleeping]
       /\ step' = Report("fetched", 0, call.resps, out.err, out.rates,
                         Observed(previousRates, out.rates),
                         IF out.err THEN <<>> ELSE filtered, NoSends)
       /\ UNCHANGED <<activeChatIDs, userPreferences, dbSubscribers, dbPreferences, now,
                      probe, published>>

\* main.go:279: the range yields a chat it has not yielded, or ends; an advance made
\* while the command loop assigns to the map is a data race, which the runtime may
\* stop with a fatal error
NextRecipient ==
    LET l    == procs["timer"]
        left == activeChatIDs \ l.visited
    IN /\ l.pc = "range"
       /\ \/ /\ left = {}
             /\ procs' = [procs EXCEPT !["timer"] = Sleeping]
          \/ \E c \in left :
                procs' = [procs EXCEPT !["timer"] = [l EXCEPT !.pc = "prefer", !.chat = c]]
          \/ /\ WritingSubscribers
             /\ procs' = [p \in Processes |-> Halted]
       /\ step' = Quiet("range")
       /\ UNCHANGED <<latestRates, lastFetchTime, previousRates, activeChatIDs,
                      userPreferences, dbSubscribers, dbPreferences, now, lastCycle,
                      cycles, probe, published>>

\* main.go:280-309 and 140-153: the message of one recipient; shouldShowCEXRates looks
\* the preference up, and caches it unless the database read fails
SendOne ==
    LET l == procs["timer"]
        c == l.chat
    IN /\ l.pc = "prefer"
       /\ \/ /\ \E load \in (IF c \in DOMAIN userPreferences THEN {FALSE} ELSE BOOLEAN) :
                   userPreferences' =
                      IF load
                      THEN [k \in DOMAIN userPreferences \cup {c} |->
                               IF k = c THEN GetShowCEX(c) ELSE userPreferences[k]]
                      ELSE userPreferences
             /\ procs' = [procs EXCEPT !["timer"] =
                             [l EXCEPT !.pc = "range", !.visited = @ \cup {c}, !.chat = 0]]
             /\ \E order \in Perms(tokensWithHighRates(l.filtered)) :
                   step' = [Quiet("send") EXCEPT !.chat = c,
                               !.sent = SendTo(c, Notification(l.rates, order))]
          \/ /\ WritingPreferences
             /\ procs' = [p \in Processes |-> Halted]
             /\ step' = Quiet("send")
             /\ UNCHANGED userPreferences
       /\ UNCHANGED <<latestRates, lastFetchTime, previousRates, activeChatIDs,
                      dbSubscribers, dbPreferences, now, lastCycle, cycles, probe,
                      published>>

\* main.go:363-371, 377-385 and 491-500: the database call of /start, /stop or /cex; a
\* failed call ends the command with the apology
Handle(chat, op) ==
    LET l == procs["command"]
    IN /\ l.pc = "idle"
       /\ op \in {"start", "stop", "cex"}
       /\ \E dbOk \in BOOLEAN,
             load \in (IF op = "cex" /\ chat \notin DOMAIN userPreferences
                       THEN BOOLEAN ELSE {FALSE}) :
             LET loaded   == IF load
                             THEN [k \in DOMAIN userPreferences \cup {chat} |->
                                      IF k = chat THEN GetShowCEX(chat)
                                      ELSE userPreferences[k]]
                             ELSE userPreferences
                 newValue == IF chat \in DOMAIN loaded THEN ~loaded[chat] ELSE FALSE
             IN /\ userPreferences' = loaded
                /\ IF dbOk
                   THEN /\ dbSubscribers' =
                              IF op = "start" THEN dbSubscribers \cup {chat}
                              ELSE IF op = "stop" THEN dbSubscribers \ {chat}
                              ELSE dbSubscribers
                        /\ dbPreferences' =
                              IF op = "cex"
                              THEN [k \in DOMAIN dbPreferences \cup {chat} |->
                                       IF k = chat THEN newValue ELSE dbPreferences[k]]
                              ELSE dbPreferences
                        /\ procs' = [procs EXCEPT !["command"] =
                                        [pc |-> "store", op |-> op, chat |-> chat,
                                         value |-> newValue]]
                        /\ step' = [Quiet(op) EXCEPT !.chat = chat]
                   ELSE /\ UNCHANGED <<dbSubscribers, dbPreferences, procs>>
                        /\ step' = [Quiet(op) EXCEPT !.chat = chat, !.err = TRUE,
                                       !.sent = SendTo(chat, Reply("sorry"))]
       /\ UNCHANGED <<latestRates, lastFetchTime, previousRates, activeChatIDs, now,
                      lastCycle, cycles, probe, published>>

\* main.go:372-375, 386-389 and 502-508: the assignment to the map and the reply
Assign ==
    LET l == procs["command"]
    IN /\ l.pc = "store"
       /\ activeChatIDs' =
             IF l.op = "start" THEN activeChatIDs \cup {l.chat}
             ELSE IF l.op = "stop" THEN activeChatIDs \ {l.chat}
             ELSE activeChatIDs
       /\ userPreferences' =
             IF l.op = "cex"
             THEN [k \in DOMAIN userPreferences \cup {l.chat} |->
                      IF k = l.chat THEN l.value ELSE userPreferences[k]]
             ELSE userPreferences
       /\ procs' = [procs EXCEPT !["command"] = Listening]
       /\ step' = [Quiet(l.op) EXCEPT !.chat = l.chat,
                      !.sent = SendTo(l.chat,
                                      Reply(IF l.op = "start" THEN "welcome"
                                            ELSE IF l.op = "stop" THEN "unsubscribed"
                                            ELSE IF l.value THEN "cex-enabled"
                                            ELSE "cex-disabled"))]
       /\ UNCHANGED <<latestRates, lastFetchTime, previousRates, dbSubscribers,
                      dbPreferences, now, lastCycle, cycles, probe, published>>

InitRegistry ==
    /\ latestRates = <<>>
    /\ lastFetchTime = 0
    /\ previousRates = EmptyMap
    /\ \E subscribers \in SUBSET Chats :
          dbSubscribers = subscribers /\ activeChatIDs = subscribers
    /\ userPreferences = EmptyMap
    /\ dbPreferences = EmptyMap
    /\ now = 1
    /\ lastCycle = <<>>
    /\ cycles = 0
    /\ step = Quiet("init")
    /\ procs = [p \in Processes |-> IF p = "timer" THEN Sleeping ELSE Listening]
    /\ published = {}
    /\ probe = NoProbe

NextRegistry ==
    \/ \E call \in WaitingCalls : RunCycle(call)
    \/ NextRecipient
    \/ SendOne
    \/ \E chat \in Chats, op \in {"start", "stop", "cex"} : Handle(chat, op)
    \/ Assign

SpecRegistry == InitRegistry /\ [][NextRegistry]_vars

\* C33: in no state is the timer cycle inside its range over activeChatIDs while a
\* command handler is at its assignment to activeChatIDs, or at its lookup in
\* userPreferences while a command handler is at its assignment to userPreferences.
C33_RegistryAccessExcluded ==
    /\ ~(Iterating /\ WritingSubscribers)
    /\ ~(ReadingPreferences /\ WritingPreferences)

-----------------------------------------------------------------------------
(* The subscriber set from the start of the process on, with the outcomes of *)
(* the read of the subscribers table                                        *)

\* db.go:47-63: the rows are read in the order of the primary key until rows.Next()
\* returns false, which it does at the end of the table and also at an error of the
\* iteration; rows.Err() is not consulted, so a read cut short returns the chats read
\* so far with a nil error.  A failed Query or Scan ends the process (main.go:219-221)
GetAllSubscribers(stored) == {{c \in stored : c <= k} : k \in 0..NumChats}

InitStartup ==
    /\ latestRates = <<>>
    /\ lastFetchTime = 0
    /\ previousRates = EmptyMap
    /\ \E stored \in SUBSET Chats :
          /\ dbSubscribers = stored
          /\ activeChatIDs \in GetAllSubscribers(stored)
    /\ userPreferences = EmptyMap
    /\ dbPreferences = EmptyMap
    /\ now = 1
    /\ lastCycle = <<>>
    /\ cycles = 0
    /\ step = Quiet("init")
    /\ procs = [p \in Processes |-> Idle]
    /\ published = {}
    /\ probe = NoProbe

NextStartup ==
    \/ \E chat \in Chats : Start(chat)
    \/ \E chat \in Chats : Stop(chat)
    \/ Tick

SpecStartup == InitStartup /\ [][NextStartup]_vars

\* C34: after the start of the process and after every /start or /stop command,
\* whether its database call succeeded or failed, activeChatIDs is the set of chats
\* stored in the subscribers table.
C34_MemoryEqualsStoredSubscribers ==
    step.op \in {"init", "start", "stop"} => activeChatIDs = dbSubscribers

-----------------------------------------------------------------------------
(* Timer cycles of a process that is stopped and started again.  The tables *)
(* of the database outlive the process, the package-level variables do not. *)

\* (mutant) the previous-rate table outlives the process
RestartKeepingRates ==
    /\ latestRates' = <<>>
    /\ lastFetchTime' = 0
    /\ activeChatIDs' = dbSubscribers
    /\ userPreferences' = EmptyMap
    /\ step' = Quiet("init")
    /\ UNCHANGED <<previousRates, dbSubscribers, dbPreferences, now, lastCycle, cycles,
                   probe, procs, published>>

\* main.go:25-40 and 203-221: a new process has the package-level variables as they
\* are declared and the subscribers of the table
Restart ==
    /\ latestRates' = <<>>
    /\ lastFetchTime' = 0
    /\ previousRates' = EmptyMap
    /\ activeChatIDs' = dbSubscribers
    /\ userPreferences' = EmptyMap
    /\ step' = Quiet("init")
    /\ UNCHANGED <<dbSubscribers, dbPreferences, now, lastCycle, cycles, probe, procs,
                   published>>

NextRestart ==
    \/ \E call \in MixedCalls : CronCycleWithin(call, FALSE, MaxHistory)
    \/ Restart

SpecRestart == Init /\ [][NextRestart]_vars

\* main.go:245-250: the rate is of a token with a threshold and at or above it
AtOrAboveThreshold(rate) ==
    /\ rate.Token \in DOMAIN lendingThresholds
    /\ rate.LendingRate >= lendingThresholds[rate.Token]

\* C35: the previous-rate table is empty when a process has started, and the first
\* successful timer cycle of a process flags exactly the fetched rates that are at or
\* above the threshold of their token and, if it flags any, sends one notification to
\* every chat of the subscriber set, whatever the cycles before the restart notified.
C35_FirstCycleFlagsEveryHighRate ==
    [][/\ step'.op = "init" => previousRates' = EmptyMap
       /\ (step'.op = "cron" /\ ~step'.err /\ lastFetchTime = 0) =>
             /\ step'.filtered = SelectSeq(step'.rates, AtOrAboveThreshold)
             /\ step'.filtered # <<>> =>
                   \A c \in activeChatIDs :
                      /\ Len(step'.sent[c]) = 1
                      /\ step'.sent[c][1].kind = "notify"]_vars

\* a cycle that is not the first of the run compares with nothing, because the process
\* was started again or no cycle before succeeded, flags a rate and notifies both
\* subscribers
C35_Witness ==
    /\ step.op = "cron"
    /\ ~step.err
    /\ cycles > 1
    /\ step.before = EmptyMap
    /\ step.filtered # <<>>
    /\ step.filtered = SelectSeq(step.rates, AtOrAboveThreshold)
    /\ activeChatIDs = Chats
    /\ \A c \in Chats : Len(step.sent[c]) = 1

\* C36: a /rate that finds the cache stale and whose fetch gets an error from every
\* adapter sends its chat the fixed error message and nothing else, and leaves the
\* snapshot and its timestamp as they were.
C36_StaleCacheIsNotServedOnFailure ==
    [][(step'.op = "rate" /\ ~isCacheValid /\ AllFailed(step'.resps)) =>
          /\ step'.sent = SendTo(step'.chat, Reply("fetch-error"))
          /\ latestRates' = latestRates
          /\ lastFetchTime' = lastFetchTime]_vars

\* every adapter has failed on a /rate that found a snapshot older than the cache
\* duration; the snapshot is still there and the chat was sent the error message
C36_Witness ==
    /\ step.op = "rate"
    /\ step.err
    /\ Len(step.resps) = Len(Sources)
    /\ AllFailed(step.resps)
    /\ latestRates # <<>>
    /\ lastFetchTime # 0
    /\ now - lastFetchTime >= cacheDuration
    /\ step.sent[step.chat] = <<Reply("fetch-error")>>

-----------------------------------------------------------------------------
(* /rate and timer cycles on snapshots that hold a token without a threshold: *)
(* OKX returns its configured tokens, Bybit a product named DAI              *)

ListingCalls ==
    {Call(<<a, Failed, Failed, Failed, e>>) :
        a \in OKXFetchRates,
        e \in {Failed} \cup {Ok(<<Rate("Bybit", "DAI", x, 0, "CEX")>>) : x \in {0, 90}}}

\* the bare command, a token without a threshold and one with a threshold
ListingArguments == {"", "DAI", "usdt"}

NextListing ==
    \/ \E chat \in Chats, arg \in ListingArguments, call \in ListingCalls :
          RateWith(chat, arg, call)
    \/ \E call \in ListingCalls : CronWith(call)

InitListing ==
    /\ Startup({1}, EmptyMap)
    /\ probe = NoProbe

SpecListing == InitListing /\ [][NextListing]_vars

\* the sections of the messages of a step that list rates
SectionsOf(report) ==
    UNION {Range(report.sent[c][1].body) :
              c \in {d \in Chats : /\ report.sent[d] # <<>>
                                   /\ report.sent[d][1].kind \in
                                         {"rates", "rates-token", "notify"}}}

\* C37: in every /rate listing the rows of a token without a configured threshold
\* carry the marker of threshold 0, which is the high-alert marker for every lending
\* rate of 0 or more; and no timer cycle files a rate of such a token in filteredRates
\* or gives it a section in a notification.
C37_UnconfiguredTokenAlwaysHighAlert ==
    /\ step.op = "rate" =>
          \A section \in SectionsOf(step) :
             section.token \notin DOMAIN lendingThresholds =>
                \A i \in DOMAIN section.rows :
                   section.rows[i].marker =
                      IF section.rows[i].lending >= 0 THEN "fire" ELSE "plain"
    /\ step.op = "cron" =>
          /\ \A i \in DOMAIN step.filtered :
                step.filtered[i].Token \in DOMAIN lendingThresholds
          /\ \A section \in SectionsOf(step) :
                section.token \in DOMAIN lendingThresholds

\* a listing of all tokens in which DAI at 0 has the high-alert marker and a configured
\* token below its threshold has none
C37_Witness ==
    /\ step.op = "rate"
    /\ \E section \in SectionsOf(step) :
          /\ section.token = "DAI"
          /\ \E i \in DOMAIN section.rows :
                section.rows[i].lending = 0 /\ section.rows[i].marker = "fire"
    /\ \E section \in SectionsOf(step) :
          /\ section.token = "USDT"
          /\ \E i \in DOMAIN section.rows : section.rows[i].marker = "plain"

=============================================================================
